---- MODULE Spec2Model ----
(***************************************************************************)
(* Ranking engine of the AEGIS procurement suite (analytics/mcda_engine.py):*)
(* topsis, promethee_ii, wsm, tier_from_score and run_mcda.                *)
(*                                                                         *)
(* Arithmetic is exact.  A float of the program is a rational number here  *)
(* (a record [n, d] in lowest terms), and a square root is kept as the     *)
(* rational under the root, so that every comparison the claims make is    *)
(* decided exactly and not up to rounding.                                 *)
(***************************************************************************)
EXTENDS Integers, Sequences, FiniteSets, TLC

VARIABLES pc, call, ret, prev, supplier_scorecards, log, arrays, np_random, sims,
          requests, auth, session_state

vars == <<pc, call, ret, prev, supplier_scorecards, log, arrays, np_random, sims,
          requests, auth, session_state>>

(***************************************************************************)
(* Bounds of the model.                                                    *)
(***************************************************************************)
\* Largest number of alternatives (rows) of a decision matrix.
MaxAlt == 3

(***************************************************************************)
(* Exact rational arithmetic.                                              *)
(***************************************************************************)
Abs(x) == IF x < 0 THEN -x ELSE x

RECURSIVE GCD(_, _)
GCD(a, b) == IF b = 0 THEN a ELSE GCD(b, a % b)

\* The rational num/den (den # 0) in lowest terms with a positive denominator.
Rat(num, den) ==
    LET g == GCD(Abs(num), Abs(den))
        s == IF den < 0 THEN -1 ELSE 1
    IN  [n |-> s * (num \div g), d |-> s * (den \div g)]

RInt(k) == [n |-> k, d |-> 1]
RZero == RInt(0)
ROne == RInt(1)

RAdd(x, y) ==
    LET g == GCD(x.d, y.d)
    IN  Rat(x.n * (y.d \div g) + y.n * (x.d \div g), (x.d \div g) * y.d)
RNeg(x) == [n |-> -x.n, d |-> x.d]
RSub(x, y) == RAdd(x, RNeg(y))
RMul(x, y) ==
    LET a == Rat(x.n, y.d)
        b == Rat(y.n, x.d)
    IN  [n |-> a.n * b.n, d |-> a.d * b.d]
RDiv(x, y) == RMul(x, Rat(y.d, y.n))
RSq(x) == [n |-> x.n * x.n, d |-> x.d * x.d]
RLeq(x, y) == x.n * y.d <= y.n * x.d
RLt(x, y) == x.n * y.d < y.n * x.d

RECURSIVE RSum(_)
RSum(s) == IF s = <<>> THEN RZero ELSE RAdd(Head(s), RSum(Tail(s)))

RECURSIVE RMaxSeq(_)
RMaxSeq(s) ==
    IF Len(s) = 1 THEN s[1]
    ELSE LET r == RMaxSeq(Tail(s)) IN IF RLeq(r, s[1]) THEN s[1] ELSE r

RECURSIVE RMinSeq(_)
RMinSeq(s) ==
    IF Len(s) = 1 THEN s[1]
    ELSE LET r == RMinSeq(Tail(s)) IN IF RLeq(s[1], r) THEN s[1] ELSE r

\* The sequence <<F(1), ..., F(n)>>, built element by element.
RECURSIVE Build(_, _, _)
Build(F(_), n, i) == IF i > n THEN <<>> ELSE <<F(i)>> \o Build(F, n, i + 1)
Tab(F(_), n) == Build(F, n, 1)

\* decision_matrix.shape
Rows(dm) == Len(dm)
Cols(dm) == Len(dm[1])

(***************************************************************************)
(* Square roots.  Sqrt(r) stands for the non-negative root of the rational *)
(* r >= 0; c / Sqrt(r) is a "normalized" matrix entry.  Sums and quotients *)
(* of roots are kept symbolically and compared by squaring.                *)
(***************************************************************************)
Sqrt(r) == [sq |-> r]
SqrtIsZero(x) == x.sq = RZero

\* u - v - t^2 < sqrt(4 t^2 v), for rationals t, v >= 0
RootLtPos(l, t2v4) == IF RLt(l, RZero) THEN TRUE ELSE RLt(RSq(l), t2v4)
\* sqrt(4 t^2 u) < v - u - t^2, for rationals t < 0, u >= 0
RootLtNeg(h, t2u4) == IF RLeq(h, RZero) THEN FALSE ELSE RLt(t2u4, RSq(h))
\* sqrt(u) < sqrt(v) + t, for rationals u, v >= 0 and t
RootLt(u, v, t) ==
    IF RLeq(RZero, t)
    THEN RootLtPos(RSub(RSub(u, v), RSq(t)), RMul(RMul(RInt(4), RSq(t)), v))
    ELSE RootLtNeg(RSub(RSub(v, u), RSq(t)), RMul(RMul(RInt(4), RSq(t)), u))

\* sqrt(p) + sqrt(q) < sqrt(r) + sqrt(s), for rationals p, q, r, s >= 0.
SurdSumLt(p, q, r, s) ==
    IF q = s THEN RLt(p, r)
    ELSE IF p = r THEN RLt(q, s)
    ELSE IF p = s THEN RLt(q, r)
    ELSE IF q = r THEN RLt(p, s)
    ELSE \* square both sides: sqrt(4pq) < sqrt(4rs) + t with t = r + s - p - q
         RootLt(RMul(RInt(4), RMul(p, q)), RMul(RInt(4), RMul(r, s)),
                RSub(RAdd(r, s), RAdd(p, q)))

\* A sum of two roots, sqrt(a) + sqrt(b): the type of topsis' denom.
SurdSum(x, y) == [a |-> x.sq, b |-> y.sq]
SurdSumIsZero(s) == s.a = RZero /\ s.b = RZero
SurdSumOne == [a |-> ROne, b |-> RZero]

\* numpy's x / y for a root x and a sum of roots y: 0/0 is nan, x/0 is inf.
Quot(x, y) ==
    IF SurdSumIsZero(y)
    THEN IF SqrtIsZero(x) THEN [kind |-> "nan"] ELSE [kind |-> "inf"]
    ELSE [kind |-> "num", num |-> x.sq, den |-> y]

\* Comparisons of a quotient sqrt(num) / (sqrt(den.a) + sqrt(den.b)).
QIsNumber(c) == c.kind = "num"
QGeqZero(c) == QIsNumber(c) /\ RLeq(RZero, c.num)
QEqZero(c) == QIsNumber(c) /\ c.num = RZero
QLeqOne(c) == QIsNumber(c) /\ ~SurdSumLt(c.den.a, c.den.b, c.num, RZero)
QEqOne(c) ==
    /\ QIsNumber(c)
    /\ ~SurdSumLt(c.den.a, c.den.b, c.num, RZero)
    /\ ~SurdSumLt(c.num, RZero, c.den.a, c.den.b)
\* x < y, by cross-multiplication (both denominators are positive)
QLt(x, y) ==
    /\ QIsNumber(x) /\ QIsNumber(y)
    /\ SurdSumLt(RMul(x.num, y.den.a), RMul(x.num, y.den.b),
                 RMul(y.num, x.den.a), RMul(y.num, x.den.b))
QEq(x, y) == QIsNumber(x) /\ QIsNumber(y) /\ ~QLt(x, y) /\ ~QLt(y, x)

(***************************************************************************)
(* topsis(decision_matrix, weights, benefit_criteria)                      *)
(* decision_matrix: sequence of m rows of n integers; weights: n rationals;*)
(* benefit_criteria: n booleans, or None.                                  *)
(***************************************************************************)
\* Python's None for an optional list or dict argument: a list of n >= 1 flags is
\* never empty, so the empty sequence is free to stand for it.
None == <<>>

\* norms = np.sqrt((decision_matrix ** 2).sum(axis=0)); norms[norms == 0] = 1
Norms(dm) ==
    Tab(LAMBDA k : LET raw == Sqrt(RSum(Tab(LAMBDA i : RInt(dm[i][k] * dm[i][k]), Rows(dm))))
        IN  IF SqrtIsZero(raw) THEN Sqrt(ROne) ELSE raw, Cols(dm))

\* normalized = decision_matrix / norms: entry c / sqrt(r)
Normalized(dm) ==
    LET norms == Norms(dm)
    IN  Tab(LAMBDA i : Tab(LAMBDA k : [c |-> RInt(dm[i][k]), r |-> norms[k].sq], Cols(dm)), Rows(dm))

\* weighted = normalized * weights
Weighted(dm, weights) ==
    LET normalized == Normalized(dm)
    IN  Tab(LAMBDA i : Tab(LAMBDA k : [c |-> RMul(normalized[i][k].c, weights[k]),
                 r |-> normalized[i][k].r], Cols(dm)), Rows(dm))

\* weighted.max(axis=0) and weighted.min(axis=0): the entries of one column
\* share the positive root r, so they are ordered as their coefficients c.
ColMax(weighted, k) ==
    [c |-> RMaxSeq(Tab(LAMBDA i : weighted[i][k].c, Len(weighted))),
     r |-> weighted[1][k].r]
ColMin(weighted, k) ==
    [c |-> RMinSeq(Tab(LAMBDA i : weighted[i][k].c, Len(weighted))),
     r |-> weighted[1][k].r]

\* a wrong IdealBest: the branches of np.where are exchanged
MutIdealBestSwapped(weighted, benefit_criteria) ==
    Tab(LAMBDA k : IF benefit_criteria[k] THEN ColMin(weighted, k) ELSE ColMax(weighted, k), Len(weighted[1]))

\* ideal_best = np.where(benefit_criteria, weighted.max(axis=0), weighted.min(axis=0))
IdealBest(weighted, benefit_criteria) ==
    Tab(LAMBDA k : IF benefit_criteria[k] THEN ColMax(weighted, k) ELSE ColMin(weighted, k), Len(weighted[1]))
\* ideal_worst = np.where(benefit_criteria, weighted.min(axis=0), weighted.max(axis=0))
IdealWorst(weighted, benefit_criteria) ==
    Tab(LAMBDA k : IF benefit_criteria[k] THEN ColMin(weighted, k) ELSE ColMax(weighted, k), Len(weighted[1]))

\* np.sqrt(((weighted - ideal) ** 2).sum(axis=1)): (c1/sqrt(r) - c2/sqrt(r))^2
\* is the rational (c1 - c2)^2 / r.
Distances(weighted, ideal) ==
    Tab(LAMBDA i : Sqrt(RSum(Tab(LAMBDA k : RDiv(RSq(RSub(weighted[i][k].c, ideal[k].c)), ideal[k].r), Len(ideal)))), Len(weighted))

\* a wrong Denom: the zero denominator is left in place
MutDenomNoGuard(dist_best, dist_worst) ==
    Tab(LAMBDA i : SurdSum(dist_best[i], dist_worst[i]), Len(dist_best))

\* denom = dist_best + dist_worst; denom[denom == 0] = 1
Denom(dist_best, dist_worst) ==
    Tab(LAMBDA i : LET raw == SurdSum(dist_best[i], dist_worst[i])
        IN  IF SurdSumIsZero(raw) THEN SurdSumOne ELSE raw, Len(dist_best))

\* closeness = dist_worst / denom   (lines 131-134)
Closeness(dist_best, dist_worst) ==
    LET denom == Denom(dist_best, dist_worst)
    IN  Tab(LAMBDA i : Quot(dist_worst[i], denom[i]), Len(dist_worst))

\* lines 120-134, from the weighted matrix
ClosenessOfWeighted(weighted, benefit_criteria) ==
    Closeness(Distances(weighted, IdealBest(weighted, benefit_criteria)),
              Distances(weighted, IdealWorst(weighted, benefit_criteria)))

\* a wrong BenefitDefault: every criterion is taken as a benefit
MutBenefitAlways(benefit_criteria, n) == Tab(LAMBDA k : TRUE, n)

\* if benefit_criteria is None: benefit_criteria = [True] * n
BenefitDefault(benefit_criteria, n) ==
    IF benefit_criteria = None THEN Tab(LAMBDA k : TRUE, n) ELSE benefit_criteria

topsis(decision_matrix, weights, benefit_criteria) ==
    ClosenessOfWeighted(Weighted(decision_matrix, weights),
                        BenefitDefault(benefit_criteria, Cols(decision_matrix)))

(***************************************************************************)
(* promethee_ii(decision_matrix, weights, preference_fn, q, p)             *)
(* preference_fn is accepted and never read.  q and p are integers here.   *)
(***************************************************************************)
\* a wrong Pref: the indifference threshold is ignored
MutPrefNoIndifference(diff, q, p) ==
    IF diff <= 0 THEN RZero
    ELSE IF diff >= p THEN ROne
    ELSE Rat(diff, p)

\* the linear preference of lines 159-164 and 182-194
Pref(diff, q, p) ==
    IF diff <= q THEN RZero
    ELSE IF diff >= p THEN ROne
    ELSE Rat(diff - q, p - q)

\* pi_ij of lines 176-197: sum over the criteria k of weights[k] * pref_ij
Pi(dm, weights, q, p, i, j) ==
    RSum(Tab(LAMBDA k : RMul(weights[k], Pref(dm[i][k] - dm[j][k], q, p)), Cols(dm)))

\* a wrong PiBack: pref_ji ignores the indifference threshold
MutPiBackNoIndifference(dm, weights, q, p, i, j) ==
    RSum(Tab(LAMBDA k : RMul(weights[k],
                             MutPrefNoIndifference(-(dm[i][k] - dm[j][k]), q, p)), Cols(dm)))

\* pi_ji of lines 177-197, from diff_ji = -diff_ij
PiBack(dm, weights, q, p, i, j) ==
    RSum(Tab(LAMBDA k : RMul(weights[k], Pref(-(dm[i][k] - dm[j][k]), q, p)), Cols(dm)))

\* The alternatives j # i in increasing order: the inner loop with its `continue`.
Others(m, i) == Tab(LAMBDA x : IF x < i THEN x ELSE x + 1, m - 1)

\* The first pair of loops (lines 152-167): phi_plus[i] += pi_ij, phi_minus[i] += 0.
FirstPass(dm, weights, q, p) ==
    LET m == Rows(dm)
    IN  [phi_plus |-> Tab(LAMBDA i : RSum(Tab(LAMBDA x : Pi(dm, weights, q, p, i, Others(m, i)[x]), m - 1)), m),
         phi_minus |-> Tab(LAMBDA i : RZero, m)]

\* The second pair of loops (lines 172-200), starting from the flows `start`.
SecondPass(dm, weights, q, p, start) ==
    LET m == Rows(dm)
    IN  [phi_plus |-> Tab(LAMBDA i : RAdd(start.phi_plus[i],
                             RSum(Tab(LAMBDA x : RDiv(Pi(dm, weights, q, p, i, Others(m, i)[x]),
                                     RInt(m - 1)), m - 1))), m),
         phi_minus |-> Tab(LAMBDA i : RAdd(start.phi_minus[i],
                             RSum(Tab(LAMBDA x : RDiv(PiBack(dm, weights, q, p, i, Others(m, i)[x]),
                                     RInt(m - 1)), m - 1))), m)]

\* phi_plus = np.zeros(m); phi_minus = np.zeros(m)   (lines 149-150, 170-171)
ZeroFlows(m) == [phi_plus |-> Tab(LAMBDA i : RZero, m),
                 phi_minus |-> Tab(LAMBDA i : RZero, m)]

\* a wrong Reset: the second loops add to the flows of the first
MutNoReset(flows) == flows

\* Lines 170-171 assign fresh zero arrays to the names that held the flows
\* of the first loops.
Reset(flows) == ZeroFlows(Len(flows.phi_plus))

\* net_flow = phi_plus - phi_minus
NetFlow(flows) ==
    Tab(LAMBDA i : RSub(flows.phi_plus[i], flows.phi_minus[i]), Len(flows.phi_plus))

\* first loops, reset ("Recompute properly"), second loops, net flow
promethee_ii(decision_matrix, weights, preference_fn, q, p) ==
    NetFlow(SecondPass(decision_matrix, weights, q, p,
                       Reset(FirstPass(decision_matrix, weights, q, p))))

(***************************************************************************)
(* wsm(decision_matrix, weights)                                           *)
(***************************************************************************)
\* a wrong Ranges: every column is divided by 1
MutRangesOne(mins, maxs) == Tab(LAMBDA k : ROne, Len(mins))

\* ranges = maxs - mins; ranges[ranges == 0] = 1
Ranges(mins, maxs) ==
    Tab(LAMBDA k : LET raw == RSub(maxs[k], mins[k])
        IN  IF raw = RZero THEN ROne ELSE raw, Len(mins))

wsm(decision_matrix, weights) ==
    LET m == Rows(decision_matrix)
        n == Cols(decision_matrix)
        mins == Tab(LAMBDA k : RMinSeq(Tab(LAMBDA i : RInt(decision_matrix[i][k]), m)), n)
        maxs == Tab(LAMBDA k : RMaxSeq(Tab(LAMBDA i : RInt(decision_matrix[i][k]), m)), n)
        ranges == Ranges(mins, maxs)
        normed == Tab(LAMBDA i : Tab(LAMBDA k : RDiv(RSub(RInt(decision_matrix[i][k]), mins[k]), ranges[k]), n), m)
    IN  \* normed @ weights
        Tab(LAMBDA i : RSum(Tab(LAMBDA k : RMul(normed[i][k], weights[k]), n)), m)

(***************************************************************************)
(* tier_from_score(score), score a rational                                *)
(***************************************************************************)
\* a wrong tier_from_score: the thresholds are exclusive
MutTierExclusive(score) ==
    IF RLt(RInt(80), score) THEN "Strategic"
    ELSE IF RLt(RInt(65), score) THEN "Preferred"
    ELSE IF RLt(RInt(50), score) THEN "Approved"
    ELSE IF RLt(RInt(35), score) THEN "Conditional"
    ELSE "Blocked"

tier_from_score(score) ==
    IF RLeq(RInt(80), score) THEN "Strategic"
    ELSE IF RLeq(RInt(65), score) THEN "Preferred"
    ELSE IF RLeq(RInt(50), score) THEN "Approved"
    ELSE IF RLeq(RInt(35), score) THEN "Conditional"
    ELSE "Blocked"

(***************************************************************************)
(* Rounding to two decimals needs integers beyond 32 bits: a natural       *)
(* number is a sequence of base-10000 digits, least significant first.     *)
(***************************************************************************)
BigBase == 10 ^ 4

RECURSIVE BigOf(_)
BigOf(k) == IF k = 0 THEN <<>> ELSE <<k % BigBase>> \o BigOf(k \div BigBase)

RECURSIVE BigTrim(_)
BigTrim(x) ==
    IF x = <<>> THEN <<>>
    ELSE IF x[Len(x)] = 0 THEN BigTrim(SubSeq(x, 1, Len(x) - 1))
    ELSE x

RECURSIVE BigAddC(_, _, _)
BigAddC(x, y, carry) ==
    IF x = <<>> /\ y = <<>> THEN (IF carry = 0 THEN <<>> ELSE <<carry>>)
    ELSE LET a == IF x = <<>> THEN 0 ELSE Head(x)
             b == IF y = <<>> THEN 0 ELSE Head(y)
             t == a + b + carry
         IN  <<t % BigBase>> \o
             BigAddC(IF x = <<>> THEN <<>> ELSE Tail(x),
                     IF y = <<>> THEN <<>> ELSE Tail(y), t \div BigBase)
BigAdd(x, y) == BigAddC(x, y, 0)

\* x * s for one digit s < BigBase
RECURSIVE BigMulDigit(_, _, _)
BigMulDigit(x, s, carry) ==
    IF x = <<>> THEN BigOf(carry)
    ELSE LET t == Head(x) * s + carry
         IN  <<t % BigBase>> \o BigMulDigit(Tail(x), s, t \div BigBase)

RECURSIVE BigMul(_, _)
BigMul(x, y) ==
    IF y = <<>> \/ x = <<>> THEN <<>>
    ELSE BigAdd(BigMulDigit(x, Head(y), 0), <<0>> \o BigMul(x, Tail(y)))

\* -1, 0 or 1 as x < y, x = y or x > y
RECURSIVE BigCmpSameLen(_, _)
BigCmpSameLen(x, y) ==
    IF x = <<>> THEN 0
    ELSE IF x[Len(x)] < y[Len(y)] THEN -1
    ELSE IF x[Len(x)] > y[Len(y)] THEN 1
    ELSE BigCmpSameLen(SubSeq(x, 1, Len(x) - 1), SubSeq(y, 1, Len(y) - 1))
BigCmp(x, y) ==
    LET a == BigTrim(x)
        b == BigTrim(y)
    IN  IF Len(a) < Len(b) THEN -1
        ELSE IF Len(a) > Len(b) THEN 1
        ELSE BigCmpSameLen(a, b)

\* the product of a sequence of natural numbers
RECURSIVE BigProd(_)
BigProd(s) == IF s = <<>> THEN <<1>> ELSE BigMul(BigOf(Head(s)), BigProd(Tail(s)))

(***************************************************************************)
(* A score before rounding is one of:                                      *)
(*   [kind "rat", v]          the rational v                               *)
(*   [kind "quot", q]         a topsis closeness (a quotient of roots)     *)
(*   [kind "eps", a, c]       a / (c + 1e-9) for rationals a, c >= 0       *)
(* all of them fractions of 100 (the code multiplies by 100 and rounds to  *)
(* two decimals).  The rounding compares 20000 * score with odd numbers j: *)
(* that is 100 * score against a half of a hundredth, exactly.             *)
(***************************************************************************)
TwiceScale == 2 * 10 ^ 4
\* the 1e-9 of line 268 is 1 / EpsInv
EpsInv == 10 ^ 9

\* The comparison of 20000 * s with j, for every j, as a pair of naturals:
\*   form "lin":  l against r * j
\*   form "sq":   l * (20000 - j)^2 against r * j^2
\*   form "root": l against r * j^2
Prepared(s) ==
    IF s.kind = "rat"
    THEN [form |-> "lin", l |-> BigProd(<<s.v.n, TwiceScale>>), r |-> BigOf(s.v.d)]
    ELSE IF s.kind = "eps"
    THEN \* (a.n/a.d) / (c.n/c.d + 1/E) = a.n c.d E / (a.d (c.n E + c.d))
         [form |-> "lin",
          l |-> BigProd(<<TwiceScale, s.a.n, s.c.d, EpsInv>>),
          r |-> BigMul(BigOf(s.a.d),
                       BigAdd(BigProd(<<s.c.n, EpsInv>>), BigOf(s.c.d)))]
    ELSE IF s.q.den = SurdSumOne
    THEN \* sqrt(num) >= j / 20000  iff  num.n 20000^2 >= j^2 num.d
         [form |-> "root",
          l |-> BigProd(<<s.q.num.n, TwiceScale, TwiceScale>>),
          r |-> BigOf(s.q.num.d)]
    ELSE \* sqrt(w) / (sqrt(b) + sqrt(w)) >= t  iff  w (1 - t)^2 >= t^2 b
         [form |-> "sq",
          l |-> BigProd(<<s.q.num.n, s.q.den.a.d>>),
          r |-> BigProd(<<s.q.den.a.n, s.q.num.d>>)]

\* -1, 0 or 1 as 20000 * s is less than, equal to or greater than j (0 <= j <= 20000)
ScoreCmp(ps, j) ==
    IF ps.form = "lin" THEN BigCmp(ps.l, BigMul(ps.r, BigOf(j)))
    ELSE IF ps.form = "root" THEN BigCmp(ps.l, BigMul(ps.r, BigOf(j * j)))
    ELSE BigCmp(BigMul(ps.l, BigOf((TwiceScale - j) * (TwiceScale - j))),
                BigMul(ps.r, BigOf(j * j)))

\* The largest k in lo..hi with 100 * s >= k - 1/2 (it holds for lo).
RECURSIVE SearchHundredths(_, _, _)
SearchHundredths(ps, lo, hi) ==
    IF lo = hi THEN lo
    ELSE LET mid == (lo + hi + 1) \div 2
         IN  IF ScoreCmp(ps, 2 * mid - 1) >= 0
             THEN SearchHundredths(ps, mid, hi)
             ELSE SearchHundredths(ps, lo, mid - 1)

\* np.round(s * 100, 2), in hundredths: round half to even.  s is in [0, 1].
Round2(s) ==
    LET ps == Prepared(s)
        k == SearchHundredths(ps, 0, TwiceScale \div 2)
    IN  IF k > 0 /\ ScoreCmp(ps, 2 * k - 1) = 0 /\ k % 2 = 1 THEN k - 1 ELSE k

(***************************************************************************)
(* run_mcda(method, period_year, period_quarter, custom_weights)           *)
(***************************************************************************)
\* config.MCDA_DEFAULT_WEIGHTS
MCDA_DEFAULT_WEIGHTS ==
    [c \in {"cost", "quality", "delivery", "risk", "esg", "innovation", "compliance"} |->
        CASE c = "cost" -> Rat(20, 100)
          [] c = "quality" -> Rat(18, 100)
          [] c = "delivery" -> Rat(15, 100)
          [] c = "risk" -> Rat(15, 100)
          [] c = "esg" -> Rat(12, 100)
          [] c = "innovation" -> Rat(10, 100)
          [] c = "compliance" -> Rat(10, 100)]

criteria == <<"cost", "quality", "delivery", "risk", "esg", "innovation", "compliance">>
score_cols == <<"cost_score", "quality_score", "delivery_score", "risk_score",
                "esg_score", "innovation_score", "financial_score">>

\* weights_dict.get(c, 0.1)
DictGet(d, c) == IF c \in DOMAIN d THEN d[c] ELSE Rat(1, 10)

\* np.nan_to_num(dm, nan=50.0); a cell is an integer or the string "nan"
NanToNum(cell) == IF cell \in Int THEN cell ELSE 50

\* df["composite_score"].rank(ascending=False, method="min"): the values are
\* sorted in descending order and numbered 1..m; tied values all get the
\* smallest number of their group.
RECURSIVE InsertDesc(_, _)
InsertDesc(x, sorted) ==
    IF sorted = <<>> THEN <<x>>
    ELSE IF x > Head(sorted) THEN <<x>> \o sorted
    ELSE <<Head(sorted)>> \o InsertDesc(x, Tail(sorted))

RECURSIVE SortDesc(_)
SortDesc(s) == IF s = <<>> THEN <<>> ELSE InsertDesc(Head(s), SortDesc(Tail(s)))

\* a wrong RankMin: method="dense" (tied groups do not skip rank numbers)
MutRankDense(composite) ==
    Tab(LAMBDA i : Cardinality({composite[j] : j \in {x \in 1..Len(composite) :
                                            composite[x] > composite[i]}}) + 1, Len(composite))

RankMin(composite) ==
    LET sorted == SortDesc(composite)
        FirstPos(x) == CHOOSE pos \in 1..Len(sorted) :
                          /\ sorted[pos] = x
                          /\ \A earlier \in 1..(pos - 1) : sorted[earlier] # x
    IN  Tab(LAMBDA i : FirstPos(composite[i]), Len(composite))

\* period_label = f"{period_year}-Q{period_quarter}" if period_quarter else str(period_year)
\* (period_quarter 0 stands for None: both are false in the test of line 277)
PeriodLabel(period_year, period_quarter) ==
    IF period_quarter # 0 THEN <<period_year, "Q", period_quarter>> ELSE <<period_year>>

\* a wrong RescaleEps: the flows are measured from the maximum downwards
MutRescaleFromMax(raw, mn, mx) ==
    Tab(LAMBDA i : [kind |-> "eps", a |-> RSub(mx, raw[i]), c |-> RSub(mx, mn)], Len(raw))

\* ((raw - raw.min()) / (raw.max() - raw.min() + 1e-9)) * 100   (line 268)
RescaleEps(raw, mn, mx) ==
    Tab(LAMBDA i : [kind |-> "eps", a |-> RSub(raw[i], mn), c |-> RSub(mx, mn)], Len(raw))
Rescale(raw) == RescaleEps(raw, RMinSeq(raw), RMaxSeq(raw))

\* scores of topsis and wsm, tagged with their kind
AsQuot(scores) == Tab(LAMBDA i : [kind |-> "quot", q |-> scores[i]], Len(scores))
AsRat(scores) == Tab(LAMBDA i : [kind |-> "rat", v |-> scores[i]], Len(scores))

\* Lines 262-270: the branch on the method name, giving the scores before
\* rounding (as fractions of 100).
MethodScores(method, dm, w) ==
    IF method = "TOPSIS" THEN AsQuot(topsis(dm, w, None))
    ELSE IF method = "PROMETHEE"
    THEN Rescale(promethee_ii(dm, w, [type |-> "str", val |-> "linear"], 5, 20))
    ELSE \* WSM
         AsRat(wsm(dm, w))

\* w = np.array([weights_dict.get(c, 0.1) for c in criteria])   (line 249)
WeightArray(weights_dict) ==
    Tab(LAMBDA k : DictGet(weights_dict, criteria[k]), Len(criteria))

\* a wrong NormalizeWeights: the weights are used as given
MutNoNormalize(w) == w

\* w = w / w.sum()   (line 250)
NormalizeWeights(w) == Tab(LAMBDA k : RDiv(w[k], RSum(w)), Len(w))

\* dm = df[score_cols].values.astype(float); np.nan_to_num(dm, nan=50.0)
DecisionMatrix(df) ==
    Tab(LAMBDA i : Tab(LAMBDA k : NanToNum(df[i][score_cols[k]]), Len(score_cols)), Len(df))

\* df["composite_score"] = np.round(scores, 2)   (line 272), in hundredths
Composite(scores) == Tab(LAMBDA i : Round2(scores[i]), Len(scores))

\* Lines 272-325: the frame returned, the rows inserted and the line logged.
Scorecards(method, period_label, df, dm, w, composite_score, rank) ==
    [kind |-> "df",
     rows |-> Tab(LAMBDA i : [supplier_id |-> df[i].supplier_id,
                              composite_score |-> composite_score[i],
                              rank |-> rank[i],
                              tier_recommendation |->
                                  tier_from_score(Rat(composite_score[i], 100)),
                              methodology |-> method], Len(df)),
     records |-> Tab(LAMBDA i : [supplier_id |-> df[i].supplier_id,
                                 period_label |-> period_label,
                                 scores |-> dm[i],
                                 w |-> w,
                                 composite_score |-> composite_score[i],
                                 rank |-> rank[i],
                                 tier_recommendation |->
                                     tier_from_score(Rat(composite_score[i], 100)),
                                 methodology |-> method], Len(df)),
     logged |-> <<<<"INFO MCDA complete", method, Len(df)>>>>]

Ranked(method, period_label, df, dm, w, composite_score) ==
    Scorecards(method, period_label, df, dm, w, composite_score,
               RankMin(composite_score))

Scored(method, period_label, df, dm, w) ==
    Ranked(method, period_label, df, dm, w, Composite(MethodScores(method, dm, w)))

\* if custom_weights: weights_dict = custom_weights, else the defaults
WeightsDict(custom_weights) ==
    IF DOMAIN custom_weights = {} THEN MCDA_DEFAULT_WEIGHTS ELSE custom_weights

\* The outcome of one call: what is returned or raised, the rows inserted
\* into supplier_scorecards and the lines logged.  df is the result of
\* build_decision_matrix, a sequence of rows.
run_mcda(method, period_year, period_quarter, custom_weights, df) ==
    IF df = <<>>
    THEN [kind |-> "empty", rows |-> <<>>, records |-> <<>>,
          logged |-> <<"WARNING No data for the selected period.">>]
    ELSE IF RSum(WeightArray(WeightsDict(custom_weights))) = RZero
    THEN \* w is all nan, and so is every score and rank: astype(int) raises
         [kind |-> "raise", rows |-> <<>>, records |-> <<>>, logged |-> <<>>]
    ELSE Scored(method, PeriodLabel(period_year, period_quarter), df,
                DecisionMatrix(df),
                NormalizeWeights(WeightArray(WeightsDict(custom_weights))))

(***************************************************************************)
(* The arrays of a call of topsis, promethee_ii or wsm.  The caller passes *)
(* decision_matrix and weights by reference; every other array is created  *)
(* by the call (norms, normalized, weighted, ..., ranges, normed, phi_plus, *)
(* phi_minus).  A statement x[x == 0] = 1 or x[i] += v writes into the     *)
(* array that the name x is bound to; every other statement binds a name   *)
(* to a new array.                                                         *)
(***************************************************************************)
\* a wrong InPlaceTargets: the zero guard is applied to the matrix itself
MutInPlaceOnInput(fn) ==
    IF fn = "promethee_ii" THEN {"phi_plus", "phi_minus"} ELSE {"decision_matrix"}

\* The arrays written in place: norms (line 116) and denom (line 132) in
\* topsis, ranges (line 214) in wsm, phi_plus and phi_minus (lines 166-167
\* and 199-200) in promethee_ii.
InPlaceTargets(fn) ==
    IF fn = "topsis" THEN {"norms", "denom"}
    ELSE IF fn = "wsm" THEN {"ranges"}
    ELSE {"phi_plus", "phi_minus"}

\* x[x == 0] = 1 applied to a matrix and to a vector of rationals
ZerosToOnesMatrix(dm) ==
    Tab(LAMBDA i : Tab(LAMBDA k : IF dm[i][k] = 0 THEN 1 ELSE dm[i][k], Cols(dm)), Rows(dm))
ZerosToOnesVector(w) == Tab(LAMBDA k : IF w[k] = RZero THEN ROne ELSE w[k], Len(w))

\* The contents of the caller's two arrays when the call has returned.
ArraysAfter(fn, decision_matrix, weights) ==
    [decision_matrix |-> IF "decision_matrix" \in InPlaceTargets(fn)
                         THEN ZerosToOnesMatrix(decision_matrix) ELSE decision_matrix,
     weights |-> IF "weights" \in InPlaceTargets(fn)
                 THEN ZerosToOnesVector(weights) ELSE weights]

(***************************************************************************)
(* compute_hhi (concentration.py) works on binary64 numbers.  A            *)
(* non-negative binary64 number is [m, e]: the value m * 2^e, with m a      *)
(* natural number below 2^53 in base-10000 digits, odd unless the value is  *)
(* 0.  Every operation returns the exact result rounded to 53 significant   *)
(* bits, ties to even; the values of this model stay far from the limits    *)
(* of the exponent range.                                                   *)
(***************************************************************************)
BigIsOdd(x) == x # <<>> /\ x[1] % 2 = 1

\* floor(x / d) and x mod d for a divisor d with d * BigBase < 2^31
RECURSIVE BigDivSmallC(_, _, _)
BigDivSmallC(x, d, carry) ==
    IF x = <<>> THEN <<>>
    ELSE LET t == carry * BigBase + x[Len(x)]
         IN  BigDivSmallC(SubSeq(x, 1, Len(x) - 1), d, t % d) \o <<t \div d>>
BigDivSmall(x, d) == BigTrim(BigDivSmallC(x, d, 0))

RECURSIVE BigModSmallC(_, _, _)
BigModSmallC(x, d, carry) ==
    IF x = <<>> THEN carry
    ELSE BigModSmallC(SubSeq(x, 1, Len(x) - 1), d, (carry * BigBase + x[Len(x)]) % d)
BigModSmall(x, d) == BigModSmallC(x, d, 0)

BigHalf(x) == BigDivSmall(x, 2)

\* x * 2^s
RECURSIVE BigShl(_, _)
BigShl(x, s) == IF s = 0 \/ x = <<>> THEN x ELSE BigShl(BigAdd(x, x), s - 1)

MantissaBits == 53
TwoToMantissa == BigShl(<<1>>, MantissaBits)

\* several bits are shifted out at once while the number is long
ShiftBits == 10
TwoToShift == 2 ^ ShiftBits
TwoToLong == BigShl(<<1>>, MantissaBits + ShiftBits)

F64Zero == [m |-> <<>>, e |-> 0]

\* the representation with an odd m
RECURSIVE Canon(_, _)
Canon(N, e) ==
    IF N = <<>> THEN F64Zero
    ELSE IF BigIsOdd(N) THEN [m |-> N, e |-> e]
    ELSE IF BigModSmall(N, TwoToShift) = 0
    THEN Canon(BigDivSmall(N, TwoToShift), e + ShiftBits)
    ELSE Canon(BigHalf(N), e + 1)

\* N * 2^e (plus, when sticky, a positive amount below 2^e) rounded to the
\* nearest number of 53 bits, ties to even: round is the last bit shifted
\* out, sticky tells whether anything below it was not zero.
RECURSIVE Round53(_, _, _, _)
Round53(N, e, round, sticky) ==
    IF BigCmp(N, TwoToLong) >= 0
    THEN Round53(BigDivSmall(N, TwoToShift), e + ShiftBits,
                 BigModSmall(N, TwoToShift) >= TwoToShift \div 2,
                 sticky \/ round \/ BigModSmall(N, TwoToShift \div 2) # 0)
    ELSE IF BigCmp(N, TwoToMantissa) >= 0
    THEN Round53(BigHalf(N), e + 1, BigIsOdd(N), sticky \/ round)
    ELSE IF round /\ (sticky \/ BigIsOdd(N)) THEN Canon(BigAdd(N, <<1>>), e)
    ELSE Canon(N, e)

F64Mul(a, b) == Round53(BigMul(a.m, b.m), a.e + b.e, FALSE, FALSE)

F64Add(a, b) ==
    IF a.m = <<>> THEN b
    ELSE IF b.m = <<>> THEN a
    ELSE IF a.e >= b.e
    THEN Round53(BigAdd(BigShl(a.m, a.e - b.e), b.m), b.e, FALSE, FALSE)
    ELSE Round53(BigAdd(BigShl(b.m, b.e - a.e), a.m), a.e, FALSE, FALSE)

\* the quotient n / d of two natural numbers below 2^17, d > 0, as Python
\* computes it; the quotient is taken with GuardBits bits below the point
GuardBits == 72
F64Quotient(big, d) == Round53(BigDivSmall(big, d), -GuardBits, FALSE, BigModSmall(big, d) # 0)
F64Div(n, d) == F64Quotient(BigShl(BigOf(n), GuardBits), d)

\* np.asarray(shares, dtype=float): a share arrives as the Python number
\* n / d (100 / k, 25.0, ...), written here as the fraction [n, d]
AsFloatArray(shares) == Tab(LAMBDA i : F64Div(shares[i].n, shares[i].d), Len(shares))

\* shares ** 2
Squares(a) == Tab(LAMBDA i : F64Mul(a[i], a[i]), Len(a))

\* res += a[i] for i = from, ..., Len(a)
RECURSIVE SumFrom(_, _, _)
SumFrom(a, from, res) ==
    IF from > Len(a) THEN res ELSE SumFrom(a, from + 1, F64Add(res, a[from]))

\* r[j] += a[i + j] for the blocks of 8 that follow the first one
RECURSIVE Accumulate8(_, _, _)
Accumulate8(a, r, i) ==
    IF i + 8 > Len(a) THEN r
    ELSE Accumulate8(a, Tab(LAMBDA j : F64Add(r[j], a[i + j]), 8), i + 8)

Combine8(r) ==
    F64Add(F64Add(F64Add(r[1], r[2]), F64Add(r[3], r[4])),
           F64Add(F64Add(r[5], r[6]), F64Add(r[7], r[8])))

\* numpy's summation of a contiguous block of fewer than 128 numbers: a
\* plain loop below 8 numbers, 8 running sums otherwise and a plain loop
\* for the rest
PairwiseSum(a) ==
    IF Len(a) < 8 THEN SumFrom(a, 1, F64Zero)
    ELSE SumFrom(a, Len(a) - (Len(a) % 8) + 1,
                 Combine8(Accumulate8(a, SubSeq(a, 1, 8), 8)))

\* np.sum of a one-dimensional array: the first number plus the sum of the
\* others
NpSum(a) == IF a = <<>> THEN F64Zero ELSE F64Add(a[1], PairwiseSum(Tail(a)))

\* a wrong compute_hhi: the shares are summed, not their squares
MutHhiNoSquare(shares) == NpSum(AsFloatArray(shares))

compute_hhi(shares) == NpSum(Squares(AsFloatArray(shares)))

(***************************************************************************)
(* Monte Carlo simulations (monte_carlo.py), in exact arithmetic.          *)
(*                                                                         *)
(* A vector of simulated values is a sequence of runs [v, count]: count    *)
(* consecutive entries of value v.  The normal draws are inputs of a call: *)
(* a draw z of a path step gives the factor exp(drift + diffusion * z),    *)
(* which ranges over all positive numbers as z ranges over the reals, so   *)
(* a call is given the product of the step factors of each path.           *)
(***************************************************************************)
MC_DEFAULT_PATHS == 10000
MC_DEFAULT_HORIZON_DAYS == 90
MC_MAX_PATHS == 100000
MC_MAX_HORIZON_DAYS == 365
TradingDays == 252

\* the static rates, which _fetch_live_fx returns when no live rate is found
FX_ANCHOR_RATES == [EUR |-> Rat(85, 100), GBP |-> Rat(74, 100)]
FX_VOLATILITIES == [EUR |-> Rat(8, 100), GBP |-> Rat(10, 100)]

\* d.get(key, default)
Get(d, key, default) == IF key \in DOMAIN d THEN d[key] ELSE default

\* An optional argument is None (left out) or <<value>>.
\* x or y, for an optional integer and for an optional fraction x
OrInt(x, y) == IF x = None THEN y ELSE IF x[1] = 0 THEN y ELSE x[1]
OrNum(x, y) == IF x = None THEN y ELSE IF x[1].n = 0 THEN y ELSE x[1]

Min(a, b) == IF a <= b THEN a ELSE b

\* a wrong EffPaths: no cap
MutPathsNoCap(n_paths) == OrInt(n_paths, MC_DEFAULT_PATHS)

\* lines 35-41: the arguments after the defaults and the caps
EffPaths(n_paths) == Min(OrInt(n_paths, MC_DEFAULT_PATHS), MC_MAX_PATHS)
EffHorizon(horizon_days) ==
    Min(OrInt(horizon_days, MC_DEFAULT_HORIZON_DAYS), MC_MAX_HORIZON_DAYS)
EffRate(currency, current_rate) ==
    OrNum(current_rate, Get(FX_ANCHOR_RATES, currency, ROne))
EffVol(currency, annual_vol) ==
    OrNum(annual_vol, Get(FX_VOLATILITIES, currency, Rat(1, 10)))

\* lines 43-53: the local variables of the path loop.  daily_vol is
\* annual_vol / sqrt(252), kept as its square; the exponent of a step is
\* drift + diffusion * z with
\*   drift     = -0.5 * daily_vol**2 * dt_step
\*   diffusion = daily_vol * math.sqrt(dt_step), kept as its square.
StepExponent(daily_vol_sq, dt_step) ==
    [daily_vol_sq |-> daily_vol_sq,
     dt_step |-> dt_step,
     drift |-> RMul(Rat(-1, 2), RMul(daily_vol_sq, dt_step)),
     diffusion_sq |-> RMul(daily_vol_sq, dt_step)]
FxLocals(annual_vol) ==
    StepExponent(RDiv(RSq(annual_vol), RInt(TradingDays)), Rat(1, TradingDays))

\* adjacent runs of one value are one run
RECURSIVE Compact(_)
Compact(runs) ==
    IF runs = <<>> THEN <<>>
    ELSE IF Head(runs).count = 0 THEN Compact(Tail(runs))
    ELSE IF Len(runs) >= 2 /\ runs[2].count = 0
    THEN Compact(<<Head(runs)>> \o SubSeq(runs, 3, Len(runs)))
    ELSE IF Len(runs) >= 2 /\ runs[2].v = Head(runs).v
    THEN Compact(<<[v |-> Head(runs).v, count |-> Head(runs).count + runs[2].count]>>
                     \o SubSeq(runs, 3, Len(runs)))
    ELSE <<Head(runs)>> \o Compact(Tail(runs))

Length(runs) == IF runs = <<>> THEN 0 ELSE RSum(Tab(LAMBDA i : RInt(runs[i].count), Len(runs))).n

\* lines 48-54: terminal_rates[i] is current_rate times the step factors of
\* path i; the paths of a run of the plan draw the same numbers
TerminalRates(current_rate, plan) ==
    Compact(Tab(LAMBDA i : [v |-> RMul(current_rate, plan[i].v), count |-> plan[i].count],
                Len(plan)))

\* the runs in ascending order of value
RECURSIVE InsertRun(_, _)
InsertRun(run, sorted) ==
    IF sorted = <<>> THEN <<run>>
    ELSE IF RLt(run.v, Head(sorted).v) THEN <<run>> \o sorted
    ELSE IF run.v = Head(sorted).v
    THEN <<[v |-> run.v, count |-> run.count + Head(sorted).count]>> \o Tail(sorted)
    ELSE <<Head(sorted)>> \o InsertRun(run, Tail(sorted))

RECURSIVE SortRuns(_)
SortRuns(runs) == IF runs = <<>> THEN <<>> ELSE InsertRun(Head(runs), SortRuns(Tail(runs)))

\* entry k (from 0) of a sorted vector
RECURSIVE ValueAt(_, _)
ValueAt(sorted, k) ==
    IF k < Head(sorted).count \/ Len(sorted) = 1 THEN Head(sorted).v
    ELSE ValueAt(Tail(sorted), k - Head(sorted).count)

\* np.percentile(a, q), linear interpolation between the entries around
\* position q * (n - 1) / 100
Interpolate(lo, hi, t) == RAdd(lo, RMul(t, RSub(hi, lo)))
PercentileAt(sorted, scaled) ==
    Interpolate(ValueAt(sorted, scaled \div 100), ValueAt(sorted, scaled \div 100 + 1),
                Rat(scaled % 100, 100))
Percentile(sorted, q) == PercentileAt(sorted, q * (Length(sorted) - 1))

\* np.mean(a)
WeightedSum(runs, total) ==
    RSum(Tab(LAMBDA i : RMul(runs[i].v, Rat(runs[i].count, total)), Len(runs)))
Mean(runs) == WeightedSum(runs, Length(runs))

\* a wrong AtLeast: the entries at or below the threshold
MutAtMost(runs, threshold) == SelectSeq(runs, LAMBDA r : RLeq(r.v, threshold))

\* a[a >= threshold]
AtLeast(runs, threshold) == SelectSeq(runs, LAMBDA r : RLeq(threshold, r.v))

\* a wrong Deviation: the anchor minus the value
MutDeviationReversed(value, anchor) == RSub(anchor, value)

\* value - anchor
Deviation(value, anchor) == RSub(value, anchor)

\* lines 57-72; std_dev is left out (a square root of a variance)
FxStats(currency, current_rate, horizon_days, n_paths, terminal_rates, sorted, p95) ==
    [kind |-> "ok",
     currency |-> currency,
     current_rate |-> current_rate,
     horizon_days |-> horizon_days,
     n_paths |-> n_paths,
     mean |-> Mean(terminal_rates),
     median |-> Percentile(sorted, 50),
     p5 |-> Percentile(sorted, 5),
     p25 |-> Percentile(sorted, 25),
     p75 |-> Percentile(sorted, 75),
     p95 |-> p95,
     var_95 |-> Deviation(p95, current_rate),
     cvar_95 |-> Deviation(Mean(AtLeast(terminal_rates, p95)), current_rate),
     terminal_rates |-> terminal_rates]

FxOfSorted(currency, current_rate, horizon_days, n_paths, terminal_rates, sorted) ==
    FxStats(currency, current_rate, horizon_days, n_paths, terminal_rates, sorted,
            Percentile(sorted, 95))

FxOfTerminal(currency, current_rate, horizon_days, n_paths, terminal_rates) ==
    FxOfSorted(currency, current_rate, horizon_days, n_paths, terminal_rates,
               SortRuns(terminal_rates))

\* np.zeros(n) raises ValueError for a negative n
ValueError == [kind |-> "raise", error |-> "ValueError"]

\* simulate_fx with the factors that its draws give
simulate_fx(currency, n_paths, horizon_days, current_rate, annual_vol, plan) ==
    IF EffPaths(n_paths) < 0 THEN ValueError
    ELSE FxOfTerminal(currency, EffRate(currency, current_rate), EffHorizon(horizon_days),
                      EffPaths(n_paths),
                      TerminalRates(EffRate(currency, current_rate), plan))

\* lines 148-158
impact_params ==
    [port_closure |-> [cost_mult_mean |-> Rat(125, 100), cost_mult_std |-> Rat(15, 100),
                       lt_add_mean |-> RInt(21), lt_add_std |-> RInt(10)],
     supplier_failure |-> [cost_mult_mean |-> Rat(140, 100), cost_mult_std |-> Rat(20, 100),
                           lt_add_mean |-> RInt(45), lt_add_std |-> RInt(20)],
     sanctions |-> [cost_mult_mean |-> Rat(160, 100), cost_mult_std |-> Rat(30, 100),
                    lt_add_mean |-> RInt(60), lt_add_std |-> RInt(25)],
     natural_disaster |-> [cost_mult_mean |-> Rat(135, 100), cost_mult_std |-> Rat(25, 100),
                           lt_add_mean |-> RInt(35), lt_add_std |-> RInt(15)]]

\* F applied to every entry of a vector
MapRuns(F(_), runs) ==
    Compact(Tab(LAMBDA i : [v |-> F(runs[i].v), count |-> runs[i].count], Len(runs)))

\* np.random.normal(mean, std, n), for the standard normal draws zs
Normal(mean, std, zs) == MapRuns(LAMBDA z : RAdd(mean, RMul(std, z)), zs)

\* np.maximum left out
MutNoFloor(runs, floor) == runs

\* np.maximum(a, floor)
Maximum(runs, floor) == MapRuns(LAMBDA v : IF RLt(v, floor) THEN floor ELSE v, runs)

\* line 179
TotalCostImpact(baseline, cost_impacts) ==
    MapRuns(LAMBDA c : RMul(baseline, RSub(c, ROne)), cost_impacts)

\* lines 181-193
DisruptionStats(scenario, affected_entity, duration_days, baseline, total_cost_impact, lt_additions, p95) ==
    [kind |-> "ok",
     scenario |-> scenario,
     affected_entity |-> affected_entity,
     duration_days |-> duration_days,
     baseline_spend |-> baseline,
     cost_impact_mean |-> Mean(total_cost_impact),
     cost_impact_p95 |-> p95,
     lt_addition_mean |-> Mean(lt_additions),
     lt_addition_p95 |-> Percentile(SortRuns(lt_additions), 95),
     var_95 |-> p95,
     cvar_95 |-> Mean(AtLeast(total_cost_impact, p95))]

\* a wrong DisruptionOf: the cost impact grows with the duration (per 30 days)
MutImpactByDuration(scenario, affected_entity, duration_days, baseline, total_cost_impact, lt_additions) ==
    DisruptionStats(scenario, affected_entity, duration_days, baseline,
                    MapRuns(LAMBDA c : RMul(Rat(duration_days, 30), c), total_cost_impact),
                    lt_additions,
                    Percentile(SortRuns(MapRuns(LAMBDA c : RMul(Rat(duration_days, 30), c),
                                                total_cost_impact)), 95))

DisruptionOf(scenario, affected_entity, duration_days, baseline, total_cost_impact, lt_additions) ==
    DisruptionStats(scenario, affected_entity, duration_days, baseline, total_cost_impact,
                    lt_additions, Percentile(SortRuns(total_cost_impact), 95))

DisruptionWith(params, scenario, affected_entity, duration_days, baseline, zcost, zlt) ==
    DisruptionOf(scenario, affected_entity, duration_days, baseline,
                 TotalCostImpact(baseline,
                                 Maximum(Normal(params.cost_mult_mean, params.cost_mult_std,
                                                zcost), ROne)),
                 Maximum(Normal(params.lt_add_mean, params.lt_add_std, zlt), RZero))

\* lines 171-177: the local vectors cost_impacts and lt_additions
DisruptionLocals(params, zcost, zlt) ==
    [cost_impacts |-> Maximum(Normal(params.cost_mult_mean, params.cost_mult_std, zcost),
                              ROne),
     lt_additions |-> Maximum(Normal(params.lt_add_mean, params.lt_add_std, zlt), RZero)]

\* simulate_disruption with the baseline that the query returns and the
\* standard normal draws of its two vectors; a negative size raises
simulate_disruption(scenario, affected_entity, duration_days, n_sims, baseline, zcost, zlt) ==
    IF OrInt(n_sims, MC_DEFAULT_PATHS) < 0 THEN ValueError
    ELSE DisruptionWith(Get(impact_params, scenario, impact_params.port_closure),
                        scenario, affected_entity, duration_days, baseline, zcost, zlt)

\* lines 229-235: a trial has the product fx of its rate changes (one per
\* currency, each exp(...) of a normal draw) and the draw z of its
\* commodity shock
CommodityShock(z) ==
    IF RLt(RAdd(ROne, RMul(Rat(1, 10), z)), Rat(7, 10)) THEN Rat(7, 10)
    ELSE RAdd(ROne, RMul(Rat(1, 10), z))
TotalCost(baseline, draws) ==
    MapRuns(LAMBDA d : RMul(baseline, RMul(d.fx, CommodityShock(d.z))), draws)
SavingsAtRisk(baseline, total_cost) == MapRuns(LAMBDA c : RSub(c, baseline), total_cost)

\* lines 237-248
CostStats(baseline, n_sims, total_cost, sorted, savings_at_risk, p95) ==
    [kind |-> "ok",
     baseline_spend |-> baseline,
     n_simulations |-> n_sims,
     mean_cost |-> Mean(total_cost),
     median_cost |-> Percentile(sorted, 50),
     p5_cost |-> Percentile(sorted, 5),
     p95_cost |-> Percentile(sorted, 95),
     var_95 |-> p95,
     cvar_95 |-> Mean(AtLeast(savings_at_risk, p95)),
     cost_distribution |-> total_cost]

CostOfSavings(baseline, n_sims, total_cost, savings_at_risk) ==
    CostStats(baseline, n_sims, total_cost, SortRuns(total_cost), savings_at_risk,
              Percentile(SortRuns(savings_at_risk), 95))

CostOfTotal(baseline, n_sims, total_cost) ==
    CostOfSavings(baseline, n_sims, total_cost, SavingsAtRisk(baseline, total_cost))

DefaultCurrencies == <<"NGN", "EUR", "GBP", "CNY">>

\* a wrong OrList: only None gives the default list
MutOrListNoneOnly(x, y) == IF x = None THEN y ELSE x[1]

\* fx_currencies or [...], for an optional list: None and the empty list
\* give the default list
OrList(x, y) == IF x = None THEN y ELSE IF x[1] = <<>> THEN y ELSE x[1]

\* lines 205-206: the local n_sims and fx_currencies
CostLocals(n_sims, fx_currencies) ==
    [n_sims |-> OrInt(n_sims, MC_DEFAULT_PATHS),
     fx_currencies |-> OrList(fx_currencies, DefaultCurrencies)]

simulate_cost_scenario(n_sims, fx_currencies, baseline, draws) ==
    IF OrInt(n_sims, MC_DEFAULT_PATHS) < 0 THEN ValueError
    ELSE CostOfTotal(baseline, OrInt(n_sims, MC_DEFAULT_PATHS), TotalCost(baseline, draws))

\* line 103: the rows of the query are NULL (None) or <<days>>
\* [max(1, r[0]) for r in rows if r[0] and r[0] > 0]
RECURSIVE LeadTimes(_)
LeadTimes(rows) ==
    IF rows = <<>> THEN <<>>
    ELSE IF Head(rows) # None /\ Head(rows)[1] # 0 /\ Head(rows)[1] > 0
    THEN <<IF Head(rows)[1] < 1 THEN 1 ELSE Head(rows)[1]>> \o LeadTimes(Tail(rows))
    ELSE LeadTimes(Tail(rows))

FallbackLeadTimes == <<30, 45, 60, 35, 50, 40, 55, 70, 25, 65>>
MinHistory == 5

\* lines 105-107 with the threshold one lower
MutFallbackBelowFour(lead_times) ==
    IF Len(lead_times) < MinHistory - 1 THEN FallbackLeadTimes ELSE lead_times

\* lines 105-107
WithFallback(lead_times) ==
    IF Len(lead_times) < MinHistory THEN FallbackLeadTimes ELSE lead_times

\* sigma = np.std(np.log(lead_times)) is 0 when the lead times are all equal
SigmaIsZero(lead_times) == \A i \in 1..Len(lead_times) : lead_times[i] = lead_times[1]

\* lines 110-114: np.random.lognormal(mu, sigma, n_sims) is exp(mu + sigma * z)
\* for each draw z: the common lead time when sigma is 0, and otherwise the
\* positive number that the draw gives (the entries of samples)
Simulated(lead_times, samples) ==
    IF SigmaIsZero(lead_times)
    THEN MapRuns(LAMBDA v : RInt(lead_times[1]), samples)
    ELSE samples

\* lines 116-130; hist_std and std_dev are left out (square roots of
\* variances)
LeadTimeStats(supplier_id, lead_times, n_sims, simulated, sorted) ==
    [kind |-> "ok",
     supplier_id |-> supplier_id,
     n_historical |-> Len(lead_times),
     hist_mean |-> Rat(RSum(Tab(LAMBDA i : RInt(lead_times[i]), Len(lead_times))).n,
                       Len(lead_times)),
     n_simulations |-> n_sims,
     mean |-> Mean(simulated),
     median |-> Percentile(sorted, 50),
     p5 |-> Percentile(sorted, 5),
     p25 |-> Percentile(sorted, 25),
     p75 |-> Percentile(sorted, 75),
     p95 |-> Percentile(sorted, 95),
     simulated |-> simulated]

\* the local lead_times after line 103 and at line 110, where the fit starts
LeadTimeLocals(rows) ==
    [filtered |-> LeadTimes(rows), lead_times |-> WithFallback(LeadTimes(rows))]

LeadTimeOfSimulated(supplier_id, lead_times, n_sims, simulated) ==
    LeadTimeStats(supplier_id, lead_times, n_sims, simulated, SortRuns(simulated))

LeadTimeOfHistory(supplier_id, lead_times, n_sims, samples) ==
    LeadTimeOfSimulated(supplier_id, lead_times, n_sims, Simulated(lead_times, samples))

\* simulate_lead_time with the rows that the query returns and the samples
\* that its draws give
simulate_lead_time(supplier_id, n_sims, rows, samples) ==
    IF OrInt(n_sims, MC_DEFAULT_PATHS) < 0 THEN ValueError
    ELSE LeadTimeOfHistory(supplier_id, WithFallback(LeadTimes(rows)),
                           OrInt(n_sims, MC_DEFAULT_PATHS), samples)

(***************************************************************************)
(* simulate_fx step by step, for calls that run interleaved in the threads *)
(* of one process.  np.random is the generator of the process: np_random   *)
(* holds the numbers that it gives from its initial state on (each as the  *)
(* step factor that a call makes of it) and how many of them were taken.   *)
(* A call has a frame with its local variables.                            *)
(***************************************************************************)
\* lines 35-48: the frame when the path loop starts
FxFrame(args) ==
    [at |-> "loop",
     currency |-> args.currency,
     n_paths |-> EffPaths(args.n_paths),
     horizon_days |-> EffHorizon(args.horizon_days),
     current_rate |-> EffRate(args.currency, args.current_rate),
     i |-> 0,
     step |-> 0,
     rate |-> EffRate(args.currency, args.current_rate),
     terminal_rates |-> <<>>,
     result |-> <<>>]

\* lines 52-53, and line 54 with the start of the next path after the last
\* step of a path: z is the number taken from the generator
FxAfterDraw(frame, z) ==
    IF frame.step + 1 < frame.horizon_days
    THEN [frame EXCEPT !.step = @ + 1, !.rate = RMul(@, z)]
    ELSE [frame EXCEPT
            !.step = 0,
            !.rate = frame.current_rate,
            !.i = @ + 1,
            !.terminal_rates = Append(@, [v |-> RMul(frame.rate, z), count |-> 1]),
            !.at = IF frame.i + 1 < frame.n_paths THEN "loop" ELSE "stats"]

\* lines 57-73
FxAfterStats(frame) ==
    [frame EXCEPT
       !.at = "returned",
       !.result = FxOfTerminal(frame.currency, frame.current_rate, frame.horizon_days,
                               frame.n_paths, Compact(frame.terminal_rates))]

\* the product of the numbers from + 1, ..., from + steps of the generator
RECURSIVE PathProduct(_, _, _)
PathProduct(stream, from, steps) ==
    IF steps = 0 THEN ROne
    ELSE RMul(stream[from + 1], PathProduct(stream, from + 1, steps - 1))

\* the result of a call that runs alone from the initial state of the
\* generator
FxAlone(frame, stream) ==
    FxOfTerminal(frame.currency, frame.current_rate, frame.horizon_days, frame.n_paths,
                 Compact(Tab(LAMBDA i : [v |-> RMul(frame.current_rate,
                                                    PathProduct(stream,
                                                                (i - 1) * frame.horizon_days,
                                                                frame.horizon_days)),
                                         count |-> 1],
                             frame.n_paths)))

(***************************************************************************)
(* Inputs.                                                                 *)
(***************************************************************************)
\* Rows of the decision matrices of direct calls: one criterion with the values
\* 0, 1, 2, or two criteria with values that add up to 2 at most, the second
\* 0 or 1.
MatrixRows ==
    [1..1 -> {0, 1, 2}] \cup {r \in [1..2 -> {0, 1, 2}] : r[2] <= 1 /\ r[1] + r[2] <= 2}

\* The matrix of the end-to-end scenario of the specification.
ScenarioMatrix == <<<<80, 5>>, <<60, 8>>>>

Matrices ==
    UNION {{dm \in [1..m -> MatrixRows] : \A i \in 1..m : Len(dm[i]) = Len(dm[1])} :
            m \in 1..MaxAlt}
    \cup {ScenarioMatrix}

\* weight vectors: normalized (sum 1), not normalized, and all zero
WeightVectors(n) ==
    IF n = 1 THEN {<<ROne>>, <<RInt(2)>>, <<RZero>>}
    ELSE {<<Rat(1, 2), Rat(1, 2)>>, <<ROne, RZero>>, <<RInt(2), ROne>>,
          <<RZero, RZero>>}

\* benefit_criteria: None, all cost, or the first criterion benefit and the
\* second cost (as in the end-to-end scenario)
Polarities(n) ==
    IF n = 1 THEN {None, <<TRUE>>, <<FALSE>>}
    ELSE {None, <<TRUE, FALSE>>, <<FALSE, FALSE>>}

\* (q, p): interpolation between q and p, p = q, and p < q
Thresholds == {<<0, 2>>, <<1, 1>>, <<1, 0>>}

\* The third positional argument of promethee_ii is preference_fn: the
\* default string, or the polarity list that test_aegis.py passes there.
PreferenceFns(n) ==
    {[type |-> "str", val |-> "linear"],
     [type |-> "list", val |-> IF n = 1 THEN <<FALSE>> ELSE <<TRUE, FALSE>>]}

\* Scores handed to tier_from_score: every multiple of 0.01 within MaxOff
\* of a threshold or of the ends 0 and 100 of the scale.
MaxOff == 25
TierInputs ==
    {Rat(100 * t + k, 100) : t \in {0, 35, 50, 65, 80, 100}, k \in (-MaxOff)..MaxOff}

\* Rows that build_decision_matrix can return.  The cost and delivery scores
\* vary; the other five are the COALESCE defaults of the query (lines 48-64)
\* for a supplier with no inspection, risk, ESG or certification record.
Profile(cost, delivery) ==
    [cost_score |-> cost, quality_score |-> 97, delivery_score |-> delivery,
     risk_score |-> 60, esg_score |-> 50, innovation_score |-> 0,
     financial_score |-> 2]
Profiles == {Profile(20, 20), Profile(10, 20), Profile(0, 10), Profile(10, 0)}

WithId(profile, id) ==
    [supplier_id |-> id,
     cost_score |-> profile.cost_score, quality_score |-> profile.quality_score,
     delivery_score |-> profile.delivery_score, risk_score |-> profile.risk_score,
     esg_score |-> profile.esg_score, innovation_score |-> profile.innovation_score,
     financial_score |-> profile.financial_score]

\* the query results: none, or up to MaxAlt suppliers
DataFrames ==
    {<<>>} \cup
    UNION {{Tab(LAMBDA i : WithId(ps[i], i), m) : ps \in [1..m -> Profiles]} :
            m \in 1..MaxAlt}

AllCriteria == {criteria[k] : k \in 1..Len(criteria)}
\* custom_weights: None, the seven sliders of the scorecard page (equal, and
\* the same doubled), one slider only, and all sliders at zero
CustomWeights ==
    {None,
     [c \in AllCriteria |-> ROne],
     [c \in AllCriteria |-> RInt(2)],
     [c \in {"cost"} |-> ROne],
     [c \in AllCriteria |-> RZero]}

Methods == {"TOPSIS", "PROMETHEE", "WSM", "AHP"}

(***************************************************************************)
(* The state machine: one call of one function of the module.              *)
(***************************************************************************)
\* Share lists: k equal shares of 100 / k percent, and short lists of other
\* percentages.
MaxShares == 10
MaxMixed == 3
EqualShares(k) == Tab(LAMBDA i : [n |-> 100, d |-> k], k)
ShareValues ==
    {[n |-> 0, d |-> 1], [n |-> 10, d |-> 1], [n |-> 25, d |-> 1],
     [n |-> 50, d |-> 1], [n |-> 100, d |-> 3]}
ShareLists ==
    {EqualShares(k) : k \in 1..MaxShares}
        \cup UNION {[1..n -> ShareValues] : n \in 0..MaxMixed}

\* Draws: the product of the step factors of a path is one of Factors when
\* the path has at least one step, and 1 when it has none.
Factors == {Rat(1, 2), ROne, RInt(2)}
PathProducts(horizon_days) == IF horizon_days >= 1 THEN Factors ELSE {ROne}

\* a vector of n entries is cut into at most three runs [v, count]: count
\* paths whose step factors have the product v
Cuts(n) == {c \in {0, 1, n - n \div 20, n - 1, n} : 0 <= c /\ c <= n}
PlanOf(f1, f2, f3, a, b, n) ==
    Compact(<<[v |-> f1, count |-> a], [v |-> f2, count |-> b - a],
              [v |-> f3, count |-> n - b]>>)
Plans(n, products) ==
    IF n < 0 THEN {<<>>}
    ELSE UNION {{PlanOf(f1, f2, f3, a, b, n) :
                     f1 \in products, f2 \in products, f3 \in products,
                     b \in {c \in Cuts(n) : c >= a}} : a \in Cuts(n)}

Currencies == {"EUR", "XAF"}
PathCounts == {None, <<0>>, <<1>>, <<2>>, <<20>>, <<MC_MAX_PATHS + 1>>, <<-1>>}
Horizons == {None, <<0>>, <<1>>, <<-1>>}
Rates == {None, <<RZero>>, <<RInt(2)>>, <<RInt(-1)>>}
Volatilities == {None, <<RZero>>, <<Rat(1, 5)>>}

\* Inputs of simulate_disruption and simulate_cost_scenario.  The amounts
\* are chosen so that every sum of the model stays below 2^31.
SimCounts == {None, <<0>>, <<1>>, <<2>>, <<20>>, <<-1>>}
Scenarios == {"port_closure", "supplier_failure", "strike"}
\* COALESCE(SUM(li.line_total), 1000000)
NoSpendBaseline == 1000000
Baselines(n) ==
    IF n > 20 THEN {RInt(1000)} ELSE {RZero, RInt(1000), RInt(NoSpendBaseline)}
\* affected_entity and duration_days of a call
Affected == {[entity |-> "Lagos", days |-> 30], [entity |-> "Rotterdam", days |-> 365]}
CostZ == {RInt(-2), RInt(-1), RZero}
LeadZ == {RInt(-3), RZero}
TwoRuns(n, values) ==
    IF n < 0 THEN {<<>>}
    ELSE {Compact(<<[v |-> z1, count |-> a], [v |-> z2, count |-> n - a]>>) :
              z1 \in values, z2 \in values, a \in {c \in {0, 1} : c <= n}}
CostDraws ==
    {[fx |-> Rat(1, 2), z |-> RInt(-5)], [fx |-> ROne, z |-> RZero],
     [fx |-> RInt(2), z |-> RInt(2)], [fx |-> ROne, z |-> RInt(-5)]}
CurrencyLists == {None, <<<<>>>>, <<<<"EUR">>>>}

\* Inputs of simulate_lead_time: the rows of the shipments query and the
\* samples that the log-normal draws give
RowLists ==
    {<<>>,
     <<<<30>>>>,
     <<<<12>>, <<20>>, <<31>>, <<44>>>>,
     <<<<12>>, <<20>>, <<31>>, <<44>>, <<9>>>>,
     <<<<12>>, <<20>>, <<0>>, <<44>>, <<9>>>>,
     <<<<12>>, None, <<31>>, <<44>>, <<9>>, <<-3>>>>,
     <<<<12>>, <<20>>, <<0>>, <<44>>, <<9>>, <<15>>>>,
     <<<<14>>, <<14>>, <<14>>, <<14>>, <<14>>>>,
     <<<<30>>, <<45>>, <<60>>, <<35>>, <<50>>, <<40>>, <<55>>, <<70>>, <<25>>, <<65>>>>}
SupplierIds == {None, <<7>>}
LeadSimCounts == {None, <<0>>, <<1>>, <<20>>}
LeadSamples == {RInt(10), RInt(40), RInt(90)}

\* Interleaved calls: two calls that take at most MaxDraws numbers each,
\* and the numbers of the generator
MaxDraws == 2
Threads == {1, 2}
InterleavedArgs ==
    {[currency |-> "EUR", n_paths |-> <<nh[1]>>, horizon_days |-> <<nh[2]>>,
      current_rate |-> <<RInt(2)>>, annual_vol |-> None] :
         nh \in {x \in (1..MaxDraws) \X (1..MaxDraws) : x[1] * x[2] <= MaxDraws}}
Draws(args) == EffPaths(args.n_paths) * EffHorizon(args.horizon_days)
StreamFactors == {Rat(1, 2), RInt(2)}
Streams(len) == [1..len -> StreamFactors]

NoCall == [fn |-> "none"]

Init ==
    /\ pc = "idle"
    /\ call = NoCall
    /\ ret = <<>>
    /\ prev = <<>>
    /\ supplier_scorecards = <<>>
    /\ log = <<>>
    /\ arrays = <<>>
    /\ np_random = [stream |-> <<>>, pos |-> 0]
    /\ sims = <<>>
    /\ requests = <<>>
    /\ auth = <<>>
    /\ session_state = <<>>

CallTopsis ==
    /\ pc = "idle"
    /\ \E dm \in Matrices :
         \E w \in WeightVectors(Cols(dm)) :
           \E bc \in Polarities(Cols(dm)) :
             /\ call' = [fn |-> "topsis", decision_matrix |-> dm, weights |-> w,
                         benefit_criteria |-> bc]
             /\ ret' = topsis(dm, w, bc)
             /\ arrays' = ArraysAfter("topsis", dm, w)
    /\ pc' = "done"
    /\ UNCHANGED <<requests, auth, session_state, prev, supplier_scorecards, log, np_random, sims>>

CallPromethee ==
    /\ pc = "idle"
    /\ \E dm \in Matrices :
         \E w \in WeightVectors(Cols(dm)) :
           \E fn \in PreferenceFns(Cols(dm)) :
             \E qp \in Thresholds :
               /\ call' = [fn |-> "promethee_ii", decision_matrix |-> dm,
                           weights |-> w, preference_fn |-> fn,
                           q |-> qp[1], p |-> qp[2]]
               /\ ret' = promethee_ii(dm, w, fn, qp[1], qp[2])
               /\ arrays' = ArraysAfter("promethee_ii", dm, w)
    /\ pc' = "done"
    /\ UNCHANGED <<requests, auth, session_state, prev, supplier_scorecards, log, np_random, sims>>

CallWsm ==
    /\ pc = "idle"
    /\ \E dm \in Matrices :
         \E w \in WeightVectors(Cols(dm)) :
           /\ call' = [fn |-> "wsm", decision_matrix |-> dm, weights |-> w]
           /\ ret' = wsm(dm, w)
           /\ arrays' = ArraysAfter("wsm", dm, w)
    /\ pc' = "done"
    /\ UNCHANGED <<requests, auth, session_state, prev, supplier_scorecards, log, np_random, sims>>

CallTier ==
    /\ pc = "idle"
    /\ \E score \in TierInputs :
         /\ call' = [fn |-> "tier_from_score", score |-> score]
         /\ ret' = tier_from_score(score)
    /\ pc' = "done"
    /\ UNCHANGED <<requests, auth, session_state, prev, supplier_scorecards, log, arrays, np_random, sims>>

CallRunMcda ==
    /\ pc = "idle"
    /\ \E method \in Methods :
         \E custom_weights \in CustomWeights :
           \E period_quarter \in {0, 2} :
             \E df \in DataFrames :
               /\ call' = [fn |-> "run_mcda", method |-> method,
                           period_year |-> 2024, period_quarter |-> period_quarter,
                           custom_weights |-> custom_weights, df |-> df]
               /\ ret' = run_mcda(method, 2024, period_quarter, custom_weights, df)
               \* the INSERT of lines 306-322 and the log lines of 256 and 324
               /\ supplier_scorecards' = supplier_scorecards \o ret'.records
               /\ log' = log \o ret'.logged
    /\ pc' = "done"
    /\ UNCHANGED <<requests, auth, session_state, prev, arrays, np_random, sims>>

\* The caller repeats a finished call of a ranking method with every weight
\* multiplied by the same positive constant.
Scales == {RInt(2), Rat(1, 2)}
ScaleWeights(weights, c) == Tab(LAMBDA k : RMul(c, weights[k]), Len(weights))

CallAgainScaled ==
    /\ pc = "done"
    /\ call.fn \in {"topsis", "promethee_ii", "wsm"}
    /\ \E c \in Scales :
         LET scaled == ScaleWeights(call.weights, c)
         IN  /\ prev' = [call |-> call, ret |-> ret, factor |-> c]
             /\ call' = [call EXCEPT !.weights = scaled]
             /\ ret' = CASE call.fn = "topsis" ->
                              topsis(call.decision_matrix, scaled, call.benefit_criteria)
                         [] call.fn = "promethee_ii" ->
                              promethee_ii(call.decision_matrix, scaled,
                                           call.preference_fn, call.q, call.p)
                         [] call.fn = "wsm" -> wsm(call.decision_matrix, scaled)
             /\ arrays' = ArraysAfter(call.fn, call.decision_matrix, scaled)
    /\ pc' = "rescaled"
    /\ UNCHANGED <<requests, auth, session_state, supplier_scorecards, log, np_random, sims>>

CallComputeHhi ==
    /\ pc = "idle"
    /\ \E shares \in ShareLists :
         /\ call' = [fn |-> "compute_hhi", shares |-> shares]
         /\ ret' = compute_hhi(shares)
    /\ pc' = "done"
    /\ UNCHANGED <<requests, auth, session_state, prev, supplier_scorecards, log, arrays, np_random, sims>>

CallSimulateFx ==
    /\ pc = "idle"
    /\ \E currency \in Currencies, n_paths \in PathCounts, horizon_days \in Horizons,
          current_rate \in Rates, annual_vol \in Volatilities :
         \E plan \in Plans(EffPaths(n_paths), PathProducts(EffHorizon(horizon_days))) :
            /\ call' = [fn |-> "simulate_fx", currency |-> currency, n_paths |-> n_paths,
                        horizon_days |-> horizon_days, current_rate |-> current_rate,
                        annual_vol |-> annual_vol]
            /\ ret' = simulate_fx(currency, n_paths, horizon_days, current_rate,
                                  annual_vol, plan)
            /\ sims' = <<FxLocals(EffVol(currency, annual_vol))>>
            /\ np_random' = [np_random EXCEPT
                               !.pos = IF EffPaths(n_paths) < 0 THEN @
                                       ELSE @ + EffPaths(n_paths) * EffHorizon(horizon_days)]
    /\ pc' = "done"
    /\ UNCHANGED <<requests, auth, session_state, prev, supplier_scorecards, log, arrays>>

CallSimulateDisruption ==
    /\ pc = "idle"
    /\ \E scenario \in Scenarios, n_sims \in SimCounts, a \in Affected :
         \E baseline \in Baselines(OrInt(n_sims, MC_DEFAULT_PATHS)),
            zcost \in Plans(OrInt(n_sims, MC_DEFAULT_PATHS), CostZ),
            zlt \in TwoRuns(OrInt(n_sims, MC_DEFAULT_PATHS), LeadZ) :
            /\ call' = [fn |-> "simulate_disruption", scenario |-> scenario,
                        affected_entity |-> a.entity, duration_days |-> a.days,
                        n_sims |-> n_sims, baseline |-> baseline, zcost |-> zcost,
                        zlt |-> zlt]
            /\ ret' = simulate_disruption(scenario, a.entity, a.days, n_sims, baseline,
                                          zcost, zlt)
            /\ sims' = IF OrInt(n_sims, MC_DEFAULT_PATHS) < 0 THEN <<>>
                       ELSE <<DisruptionLocals(Get(impact_params, scenario,
                                                   impact_params.port_closure),
                                               zcost, zlt)>>
            /\ np_random' = [np_random EXCEPT
                               !.pos = IF OrInt(n_sims, MC_DEFAULT_PATHS) < 0 THEN @
                                       ELSE @ + 2 * OrInt(n_sims, MC_DEFAULT_PATHS)]
    /\ pc' = "done"
    /\ UNCHANGED <<requests, auth, session_state, prev, supplier_scorecards, log, arrays>>

CallSimulateCostScenario ==
    /\ pc = "idle"
    /\ \E n_sims \in SimCounts, fx_currencies \in CurrencyLists :
         \E baseline \in Baselines(OrInt(n_sims, MC_DEFAULT_PATHS)),
            draws \in Plans(OrInt(n_sims, MC_DEFAULT_PATHS), CostDraws) :
            /\ call' = [fn |-> "simulate_cost_scenario", n_sims |-> n_sims,
                        fx_currencies |-> fx_currencies]
            /\ ret' = simulate_cost_scenario(n_sims, fx_currencies, baseline, draws)
            /\ np_random' = [np_random EXCEPT
                               !.pos = IF OrInt(n_sims, MC_DEFAULT_PATHS) < 0 THEN @
                                       ELSE @ + OrInt(n_sims, MC_DEFAULT_PATHS)
                                                  * (Len(OrList(fx_currencies, DefaultCurrencies)) + 1)]
            /\ sims' = <<CostLocals(n_sims, fx_currencies)>>
    /\ pc' = "done"
    /\ UNCHANGED <<requests, auth, session_state, prev, supplier_scorecards, log, arrays>>

CallSimulateLeadTime ==
    /\ pc = "idle"
    /\ \E supplier_id \in SupplierIds, n_sims \in LeadSimCounts, rows \in RowLists :
         \E samples \in TwoRuns(OrInt(n_sims, MC_DEFAULT_PATHS), LeadSamples) :
            /\ call' = [fn |-> "simulate_lead_time", supplier_id |-> supplier_id,
                        n_sims |-> n_sims, rows |-> rows, samples |-> samples]
            /\ ret' = simulate_lead_time(supplier_id, n_sims, rows, samples)
            /\ np_random' = [np_random EXCEPT !.pos = @ + OrInt(n_sims, MC_DEFAULT_PATHS)]
            /\ sims' = <<LeadTimeLocals(rows)>>
    /\ pc' = "done"
    /\ UNCHANGED <<requests, auth, session_state, prev, supplier_scorecards, log, arrays>>

\* two threads call simulate_fx; the generator is in some initial state
BeginInterleaved ==
    /\ pc = "idle"
    /\ \E a1 \in InterleavedArgs, a2 \in InterleavedArgs :
         \E stream \in Streams(Draws(a1) + Draws(a2)) :
            /\ call' = [fn |-> "interleaved", calls |-> <<a1, a2>>]
            /\ sims' = <<FxFrame(a1), FxFrame(a2)>>
            /\ np_random' = [stream |-> stream, pos |-> 0]
    /\ pc' = "running"
    /\ UNCHANGED <<requests, auth, session_state, ret, prev, supplier_scorecards, log, arrays>>

\* one execution of lines 52-53 by a thread
FxDraw(t) ==
    /\ pc = "running"
    /\ sims[t].at = "loop"
    /\ sims' = [sims EXCEPT ![t] = FxAfterDraw(@, np_random.stream[np_random.pos + 1])]
    /\ np_random' = [np_random EXCEPT !.pos = @ + 1]
    /\ UNCHANGED <<requests, auth, session_state, pc, call, ret, prev, supplier_scorecards, log, arrays>>

\* lines 57-73 by a thread; the last return ends the run
FxReturn(t) ==
    /\ pc = "running"
    /\ sims[t].at = "stats"
    /\ sims' = [sims EXCEPT ![t] = FxAfterStats(@)]
    /\ pc' = IF \A u \in Threads \ {t} : sims[u].at = "returned" THEN "done" ELSE "running"
    /\ UNCHANGED <<requests, auth, session_state, call, ret, prev, supplier_scorecards, log, arrays, np_random>>

(***************************************************************************)
(* config._fetch_live_fx, one iteration of its loop over the endpoints at  *)
(* a time.  requests holds the URLs opened so far, in order.  What an      *)
(* endpoint answers is given with the call: it makes urlopen, read or      *)
(* json.loads raise, or it sends a JSON object.                            *)
(***************************************************************************)
FX_API_PRIMARY == "https://open.er-api.com/v6/latest/USD"
FX_API_SECONDARY == "https://api.exchangerate-api.com/v4/latest/USD"
FX_API_TERTIARY == "https://api.frankfurter.dev/latest?base=USD"

\* three of the nine currencies of _FX_STATIC_RATES (lines 75-78)
FX_STATIC_RATES == [EUR |-> Rat(85, 100), GBP |-> Rat(74, 100), NGN |-> Rat(135488, 100)]

\* line 86
FxApis == <<FX_API_PRIMARY, FX_API_SECONDARY, FX_API_TERTIARY>>

\* rates = data.get("rates", {}): the object under the key, or the empty one
RatesOf(answer) == IF "rates" \in DOMAIN answer.data THEN answer.data.rates ELSE <<>>

\* float(rates[c]) raises for a value that is no number (a JSON null)
FloatRaises(rates) ==
    \E c \in DOMAIN FX_STATIC_RATES \cap DOMAIN rates : rates[c].kind # "num"

\* a wrong Live: only the currencies that the response carries
MutLiveNoBackfill(rates) ==
    [c \in DOMAIN FX_STATIC_RATES \cap DOMAIN rates |-> rates[c].v]

\* lines 93-96: the live rates of the currencies of the static table, the
\* others back-filled from the static table
Live(rates) ==
    [c \in DOMAIN FX_STATIC_RATES |->
        IF c \in DOMAIN rates THEN rates[c].v ELSE FX_STATIC_RATES[c]]

\* lines 88-100: one iteration of the loop, for the answer of the endpoint
FetchFrom(url, answer) ==
    IF answer.kind = "raise"
    THEN [returned |-> FALSE, logged |-> <<<<"DEBUG FX fetch failed", url>>>>]
    ELSE IF DOMAIN RatesOf(answer) = {}
    THEN [returned |-> FALSE, logged |-> <<>>]
    ELSE IF FloatRaises(RatesOf(answer))
    THEN [returned |-> FALSE, logged |-> <<<<"DEBUG FX fetch failed", url>>>>]
    ELSE [returned |-> TRUE, live |-> Live(RatesOf(answer)),
          logged |-> <<<<"INFO Live FX rates loaded from", url>>>>]

\* what an endpoint can answer
Num(r) == [kind |-> "num", v |-> r]
RateObjects ==
    {[EUR |-> Num(Rat(9, 10)), GBP |-> Num(Rat(3, 4)), NGN |-> Num(RInt(1500)),
      USD |-> Num(ROne)],
     [EUR |-> Num(Rat(9, 10)), GBP |-> Num(Rat(3, 4)), USD |-> Num(ROne)],
     [USD |-> Num(ROne)],
     [EUR |-> Num(Rat(9, 10)), GBP |-> [kind |-> "null"], USD |-> Num(ROne)]}
Answers ==
    {[kind |-> "raise"],
     [kind |-> "json", data |-> [result |-> "error"]],
     [kind |-> "json", data |-> [rates |-> <<>>]]}
    \cup {[kind |-> "json", data |-> [rates |-> r]] : r \in RateObjects}

BeginFetchLiveFx ==
    /\ pc = "idle"
    /\ \E endpoints \in [1..Len(FxApis) -> Answers] :
         call' = [fn |-> "_fetch_live_fx", endpoints |-> endpoints]
    /\ pc' = "fetching"
    /\ UNCHANGED <<ret, prev, supplier_scorecards, log, arrays, np_random, sims,
                   requests, auth, session_state>>

\* the next URL of the loop is opened
FetchNext ==
    /\ pc = "fetching"
    /\ Len(requests) < Len(FxApis)
    /\ requests' = Append(requests, FxApis[Len(requests) + 1])
    /\ LET step == FetchFrom(FxApis[Len(requests) + 1], call.endpoints[Len(requests) + 1])
       IN  /\ log' = log \o step.logged
           /\ IF step.returned
              THEN ret' = step.live /\ pc' = "done"
              ELSE UNCHANGED <<ret, pc>>
    /\ UNCHANGED <<call, prev, supplier_scorecards, arrays, np_random, sims, auth,
                   session_state>>

\* lines 101-102: the loop has ended
FetchStatic ==
    /\ pc = "fetching"
    /\ Len(requests) = Len(FxApis)
    /\ log' = Append(log, "WARNING All FX APIs failed -- using static fallback rates")
    /\ ret' = FX_STATIC_RATES
    /\ pc' = "done"
    /\ UNCHANGED <<call, prev, supplier_scorecards, arrays, np_random, sims, requests,
                   auth, session_state>>

(***************************************************************************)
(* utils/auth.py and the gate of streamlit_app.py.  auth holds the globals *)
(* DASHBOARD_USER and DASHBOARD_PASS_HASH that the import reads from the   *)
(* environment (None when the variable is not set); session_state holds    *)
(* st.session_state of every browser session.  A run of the script is one  *)
(* step: Streamlit runs it again for every interaction.                    *)
(***************************************************************************)
\* hashlib.sha256(password.encode()).hexdigest(), for the passwords of the model
Sha256(password) ==
    CASE password = "aegis2025" ->
             "4d031226ec13093cc4bebf93cd93f667acd64deb03be351bb4dc0e0a90ec8fda"
      [] password = "wrong" ->
             "8810ad581e59f2bc3928b261707a71308f7e139eb04820366dc4d5c18d980225"
      [] password = "" ->
             "e3b0c44298fc1c149afbf4c8996fb92427ae41e4649b934ca495991b7852b855"

\* not x, for an optional string: None and the empty string are false
NotSet(x) == x = None \/ x[1] = ""

\* a wrong _check_password: every password passes when a hash is configured
MutCheckAnyPassword(pass_hash, password) == ~NotSet(pass_hash)

\* lines 17-21; hmac.compare_digest is the equality of the two strings
_check_password(pass_hash, password) ==
    IF NotSet(pass_hash) THEN FALSE ELSE Sha256(password) = pass_hash[1]

\* a session that has not been seen: no key is set
NewSession == [authenticated |-> None, user |-> None]

\* st.session_state.get("authenticated") as a condition
IsAuthenticated(state) == state.authenticated = <<TRUE>>

\* lines 29-62: what login_gate does in one run, for the state of the
\* session and the form that the browser sends.  st.rerun() ends the run
\* without a return value.
login_gate(globals, state, form) ==
    IF IsAuthenticated(state)
    THEN [kind |-> "return", value |-> TRUE, state |-> state, shown |-> <<>>]
    ELSE IF NotSet(globals.DASHBOARD_USER) \/ NotSet(globals.DASHBOARD_PASS_HASH)
    THEN [kind |-> "return", value |-> TRUE, state |-> state, shown |-> <<>>]
    ELSE IF ~form.submitted
    THEN [kind |-> "return", value |-> FALSE, state |-> state, shown |-> <<"login_form">>]
    ELSE IF form.username = globals.DASHBOARD_USER[1]
            /\ _check_password(globals.DASHBOARD_PASS_HASH, form.password)
    THEN [kind |-> "rerun", value |-> FALSE,
          state |-> [authenticated |-> <<TRUE>>, user |-> <<form.username>>],
          shown |-> <<"login_form">>]
    ELSE [kind |-> "return", value |-> FALSE, state |-> state,
          shown |-> <<"login_form", "Invalid credentials.">>]

\* streamlit_app.py lines 20-21 and 57-59: the page stops when the gate
\* returns False; the Logout button of the page clears the flag
AfterPage(gate, logout) ==
    IF gate.kind = "return" /\ gate.value /\ logout
    THEN [gate.state EXCEPT !.authenticated = <<FALSE>>]
    ELSE gate.state

Sessions == {1, 2}
Environments ==
    [DASHBOARD_USER : {None, <<"">>, <<"admin">>},
     DASHBOARD_PASS_HASH : {None, <<"">>, <<Sha256("aegis2025")>>, <<"aegis2025">>}]
NotSubmitted == [submitted |-> FALSE, username |-> "", password |-> ""]
Forms ==
    {NotSubmitted}
    \cup [submitted : {TRUE}, username : {"admin", "guest"},
          password : {"aegis2025", "wrong", ""}]

\* the dashboard starts: utils.auth is imported
ImportAuth ==
    /\ pc = "idle"
    /\ auth' \in Environments
    /\ session_state' = [s \in Sessions |-> NewSession]
    /\ call' = [fn |-> "import utils.auth"]
    /\ pc' = "serving"
    /\ UNCHANGED <<ret, prev, supplier_scorecards, log, arrays, np_random, sims, requests>>

\* one run of streamlit_app.py for a session
RunLoginGate(s) ==
    /\ pc = "serving"
    /\ \E form \in Forms, logout \in BOOLEAN :
         LET gate == login_gate(auth, session_state[s], form)
         IN  /\ call' = [fn |-> "login_gate", session |-> s, form |-> form,
                         logout |-> logout, before |-> session_state[s]]
             /\ ret' = [kind |-> gate.kind, value |-> gate.value, shown |-> gate.shown]
             /\ session_state' = [session_state EXCEPT ![s] = AfterPage(gate, logout)]
    /\ UNCHANGED <<pc, prev, supplier_scorecards, log, arrays, np_random, sims, requests,
                   auth>>

Next ==
    \/ CallTopsis
    \/ CallPromethee
    \/ CallWsm
    \/ CallTier
    \/ CallRunMcda
    \/ CallAgainScaled
    \/ CallComputeHhi
    \/ CallSimulateFx
    \/ CallSimulateDisruption
    \/ CallSimulateCostScenario
    \/ CallSimulateLeadTime
    \/ BeginInterleaved
    \/ BeginFetchLiveFx
    \/ FetchNext
    \/ FetchStatic
    \/ ImportAuth
    \/ \E s \in Sessions : RunLoginGate(s)
    \/ \E t \in Threads : FxDraw(t)
    \/ \E t \in Threads : FxReturn(t)

\* every call of the module, and repeated calls with rescaled weights
Spec == Init /\ [][Next]_vars

\* the calls of one function
SpecTopsis == Init /\ [][CallTopsis]_vars
SpecPromethee == Init /\ [][CallPromethee]_vars
SpecWsm == Init /\ [][CallWsm]_vars
SpecTier == Init /\ [][CallTier]_vars
SpecMcda == Init /\ [][CallRunMcda]_vars

SpecFx == Init /\ [][CallSimulateFx]_vars
\* the calls of the three simulations that report var_95 and cvar_95
SpecRisk ==
    Init /\ [][CallSimulateFx \/ CallSimulateDisruption \/ CallSimulateCostScenario]_vars
\* config is imported: FX_ANCHOR_RATES = _fetch_live_fx()
SpecFetch == Init /\ [][BeginFetchLiveFx \/ FetchNext \/ FetchStatic]_vars
\* the dashboard: runs of the script for its sessions
SpecAuth == Init /\ [][ImportAuth \/ \E s \in Sessions : RunLoginGate(s)]_vars
\* the four simulations
SpecMonteCarlo ==
    Init /\ [][CallSimulateFx \/ CallSimulateLeadTime \/ CallSimulateDisruption
                  \/ CallSimulateCostScenario]_vars
\* the calls that replace a degenerate quantity by a fixed one
SpecFallback == Init /\ [][CallTopsis \/ CallWsm \/ CallSimulateLeadTime]_vars
\* two interleaved calls of simulate_fx
SpecInterleaved ==
    Init /\ [][BeginInterleaved \/ (\E t \in Threads : FxDraw(t))
                    \/ (\E t \in Threads : FxReturn(t))]_vars
SpecHhi == Init /\ [][CallComputeHhi]_vars

\* the calls of the three ranking methods
SpecRank == Init /\ [][CallTopsis \/ CallPromethee \/ CallWsm]_vars

(***************************************************************************)
(* Properties.                                                             *)
(***************************************************************************)
\* C1: the net flows that promethee_ii returns sum to 0, for every matrix
\* with m >= 1 alternatives, every weight vector and every q and p
\* (p <= q included).
C1_NetFlowsSumToZero ==
    call.fn = "promethee_ii" => RSum(ret) = RZero

\* a call with p <= q and at least two alternatives whose flows are not all 0
C1_Witness ==
    /\ call.fn = "promethee_ii"
    /\ Len(ret) >= 2
    /\ call.p <= call.q
    /\ \E i \in 1..Len(ret) : ret[i] # RZero

\* C2: topsis returns exactly one closeness score per alternative, each in
\* the closed interval [0, 1], for every matrix, every vector of
\* non-negative weights and every polarity.
C2_ScoresInUnitInterval ==
    call.fn = "topsis" =>
        /\ Len(ret) = Rows(call.decision_matrix)
        /\ \A i \in 1..Len(ret) : QGeqZero(ret[i]) /\ QLeqOne(ret[i])

\* a call with a cost criterion and a score strictly between 0 and 1
C2_Witness ==
    /\ call.fn = "topsis"
    /\ call.benefit_criteria # None
    /\ \E k \in 1..Len(call.benefit_criteria) : ~call.benefit_criteria[k]
    /\ \E i \in 1..Len(ret) : ~QEqZero(ret[i]) /\ ~QEqOne(ret[i])

\* criterion k counts as a benefit (benefit_criteria None: all of them do)
IsBenefit(bc, k) == bc = None \/ bc[k]

\* alternative a is at least as good as alternative b on criterion k
AtLeastAsGood(dm, bc, a, b, k) ==
    IF IsBenefit(bc, k) THEN dm[a][k] >= dm[b][k] ELSE dm[a][k] <= dm[b][k]

\* alternative a has the highest raw value on every benefit criterion and
\* the lowest on every cost criterion
BestOnAll(dm, bc, a) ==
    \A b \in 1..Rows(dm) : \A k \in 1..Cols(dm) : AtLeastAsGood(dm, bc, a, b, k)

\* no alternative scores above alternative a
HasMaximumScore(scores, a) == \A b \in 1..Len(scores) : ~QLt(scores[a], scores[b])

\* some alternative differs from a on a criterion of positive weight
Distinguished(dm, weights, a) ==
    \E b \in 1..Rows(dm) : \E k \in 1..Cols(dm) :
        RLt(RZero, weights[k]) /\ dm[b][k] # dm[a][k]

\* C3 as stated: the alternative that is best on every criterion receives
\* the maximum score, and that score is exactly 1.
C3_BestScoresOne ==
    call.fn = "topsis" =>
        \A a \in 1..Len(ret) :
            BestOnAll(call.decision_matrix, call.benefit_criteria, a) =>
                HasMaximumScore(ret, a) /\ QEqOne(ret[a])

\* C3: with non-negative weights, the alternative that is best on every
\* criterion receives the maximum score; that score is exactly 1 when some
\* alternative differs from it on a criterion of positive weight, and
\* 0 otherwise (a single alternative, identical rows, weights all zero).
C3_BestScoresOneOrZero ==
    call.fn = "topsis" =>
        \A a \in 1..Len(ret) :
            BestOnAll(call.decision_matrix, call.benefit_criteria, a) =>
                /\ HasMaximumScore(ret, a)
                /\ IF Distinguished(call.decision_matrix, call.weights, a)
                   THEN QEqOne(ret[a])
                   ELSE QEqZero(ret[a])

\* three alternatives and a cost criterion, one alternative best on every
\* criterion and scored 1
C3_Witness ==
    /\ call.fn = "topsis"
    /\ Len(ret) = 3
    /\ call.benefit_criteria = <<TRUE, FALSE>>
    /\ \E a \in 1..Len(ret) :
          /\ BestOnAll(call.decision_matrix, call.benefit_criteria, a)
          /\ Distinguished(call.decision_matrix, call.weights, a)
          /\ QEqOne(ret[a])

\* a is at least as good as b on every criterion and strictly better on a
\* criterion of positive weight
Dominates(dm, weights, bc, a, b) ==
    /\ \A k \in 1..Cols(dm) : AtLeastAsGood(dm, bc, a, b, k)
    /\ \E k \in 1..Cols(dm) : RLt(RZero, weights[k]) /\ dm[a][k] # dm[b][k]

\* C4: with non-negative weights, an alternative a that is at least as good
\* as b on every criterion and strictly better on a criterion of positive
\* weight scores strictly above b; for the matrix [[80,5],[60,8]] with
\* weights [0.5,0.5] and polarity [True,False] the first alternative scores
\* above the second.
C4_DominanceRanksHigher ==
    call.fn = "topsis" =>
        /\ \A a, b \in 1..Len(ret) :
              Dominates(call.decision_matrix, call.weights, call.benefit_criteria, a, b)
                  => QLt(ret[b], ret[a])
        /\ ( /\ call.decision_matrix = ScenarioMatrix
             /\ call.weights = <<Rat(1, 2), Rat(1, 2)>>
             /\ call.benefit_criteria = <<TRUE, FALSE>> ) => QLt(ret[2], ret[1])

\* the call of the end-to-end scenario, the first alternative above the second
C4_Witness ==
    /\ call.fn = "topsis"
    /\ call.decision_matrix = ScenarioMatrix
    /\ call.weights = <<Rat(1, 2), Rat(1, 2)>>
    /\ call.benefit_criteria = <<TRUE, FALSE>>
    /\ Dominates(call.decision_matrix, call.weights, call.benefit_criteria, 1, 2)
    /\ QLt(ret[2], ret[1])

\* the raw values with every cost column negated: on them "higher" is the
\* advantage of every criterion
PolarityAdjusted(dm, polarity) ==
    Tab(LAMBDA i : Tab(LAMBDA k : IF polarity[k] THEN dm[i][k] ELSE -dm[i][k],
                       Cols(dm)), Rows(dm))

\* C5: promethee_ii computes the preferences from the polarity-adjusted
\* advantage: with a polarity list passed by the caller, the lower raw value
\* is the advantage on every criterion flagged as cost, so the flows are
\* those of the matrix with its cost columns negated.
C5_PolarityAdjustedAdvantage ==
    (call.fn = "promethee_ii" /\ call.preference_fn.type = "list") =>
        ret = promethee_ii(PolarityAdjusted(call.decision_matrix, call.preference_fn.val),
                           call.weights, call.preference_fn, call.q, call.p)

\* C6: wsm returns scores in [0, 1], one per alternative, for every matrix
\* and every vector of non-negative weights that sum to 1.
C6_WsmInUnitInterval ==
    (call.fn = "wsm" /\ RSum(call.weights) = ROne) =>
        /\ Len(ret) = Rows(call.decision_matrix)
        /\ \A i \in 1..Len(ret) : RLeq(RZero, ret[i]) /\ RLeq(ret[i], ROne)

\* a call with weights of sum 1 that returns the score 1 and a score
\* strictly between 0 and 1
C6_Witness ==
    /\ call.fn = "wsm"
    /\ RSum(call.weights) = ROne
    /\ \E i \in 1..Len(ret) : ret[i] = ROne
    /\ \E i \in 1..Len(ret) : RLt(RZero, ret[i]) /\ RLt(ret[i], ROne)

\* the scores `new` equal the scores `old`
SameScores(fn, old, new) ==
    /\ Len(new) = Len(old)
    /\ \A i \in 1..Len(old) :
          IF fn = "topsis" THEN QEq(new[i], old[i]) ELSE new[i] = old[i]

\* the scores `new` are c times the scores `old`
ScaledScores(c, old, new) ==
    /\ Len(new) = Len(old)
    /\ \A i \in 1..Len(old) : new[i] = RMul(c, old[i])

\* custom_weights with every slider multiplied by 2
Doubled(custom_weights) ==
    [c \in DOMAIN custom_weights |-> RMul(RInt(2), custom_weights[c])]

\* C7 as stated: topsis, promethee_ii and wsm normalize the weights they
\* are given, so a call repeated with every weight multiplied by the same
\* positive constant returns the same scores.
C7_MethodsScaleInvariant ==
    pc = "rescaled" => SameScores(call.fn, prev.ret, ret)

\* C7: the weights are normalized to sum 1 by run_mcda (the rows it inserts
\* carry weights of sum 1, and doubling a custom weight for every criterion
\* changes nothing in its result), not by the ranking methods: topsis
\* repeated with every weight multiplied by c > 0 returns the same scores,
\* promethee_ii and wsm return the scores multiplied by c.
C7_NormalizedByRunMcda ==
    /\ pc = "rescaled" =>
          IF call.fn = "topsis" THEN SameScores(call.fn, prev.ret, ret)
          ELSE ScaledScores(prev.factor, prev.ret, ret)
    /\ call.fn = "run_mcda" =>
          /\ \A r \in 1..Len(supplier_scorecards) :
                RSum(supplier_scorecards[r].w) = ROne
          /\ DOMAIN call.custom_weights = AllCriteria =>
                ret = run_mcda(call.method, call.period_year, call.period_quarter,
                               Doubled(call.custom_weights), call.df)

\* wsm repeated with doubled weights returns doubled, different, scores
C7_Witness ==
    /\ pc = "rescaled"
    /\ call.fn = "wsm"
    /\ prev.factor = RInt(2)
    /\ ScaledScores(prev.factor, prev.ret, ret)
    /\ ret # prev.ret

\* C8: tier_from_score gives Strategic from 80, Preferred from 65 and below
\* 80, Approved from 50 and below 65, Conditional from 35 and below 50,
\* Blocked below 35; 80.0 is Strategic and 79.99 is Preferred.
C8_TierThresholds ==
    call.fn = "tier_from_score" =>
        /\ call.score.n >= 80 * call.score.d => ret = "Strategic"
        /\ (call.score.n >= 65 * call.score.d /\ call.score.n < 80 * call.score.d)
              => ret = "Preferred"
        /\ (call.score.n >= 50 * call.score.d /\ call.score.n < 65 * call.score.d)
              => ret = "Approved"
        /\ (call.score.n >= 35 * call.score.d /\ call.score.n < 50 * call.score.d)
              => ret = "Conditional"
        /\ call.score.n < 35 * call.score.d => ret = "Blocked"
        /\ call.score = RInt(80) => ret = "Strategic"
        /\ call.score = Rat(7999, 100) => ret = "Preferred"

\* the score 79.99, mapped to Preferred
C8_Witness ==
    /\ call.fn = "tier_from_score"
    /\ call.score = Rat(7999, 100)
    /\ ret = "Preferred"

\* the number of rows with a composite score strictly above that of row i
HigherScores(rows, i) ==
    Cardinality({j \in 1..Len(rows) : rows[j].composite_score > rows[i].composite_score})

\* C9: in the frame run_mcda returns, the rank of a supplier is 1 plus the
\* number of suppliers with a strictly higher composite score: the best has
\* rank 1 and equal scores share the lowest rank number of their group.
C9_RankCountsHigherScores ==
    (call.fn = "run_mcda" /\ ret.kind = "df") =>
        /\ \A i \in 1..Len(ret.rows) : ret.rows[i].rank = 1 + HigherScores(ret.rows, i)
        /\ \E i \in 1..Len(ret.rows) : ret.rows[i].rank = 1

\* three suppliers: two tied with rank 1, the third with rank 3
C9_Witness ==
    /\ call.fn = "run_mcda"
    /\ ret.kind = "df"
    /\ Len(ret.rows) = 3
    /\ \E i, j, k \in 1..3 :
          /\ i # j
          /\ ret.rows[i].composite_score = ret.rows[j].composite_score
          /\ ret.rows[i].rank = 1 /\ ret.rows[j].rank = 1
          /\ ret.rows[k].composite_score < ret.rows[i].composite_score
          /\ ret.rows[k].rank = 3

\* C10: run_mcda with a method name other than TOPSIS, PROMETHEE and WSM
\* fails with an error: it returns no scores of another method and inserts
\* no scorecard.
C10_UnknownMethodFails ==
    (call.fn = "run_mcda" /\ call.method \notin {"TOPSIS", "PROMETHEE", "WSM"}) =>
        /\ ret.kind = "raise"
        /\ supplier_scorecards = <<>>

\* C18: topsis, promethee_ii and wsm leave their inputs unchanged: when the
\* call has returned, the decision matrix and the weight vector hold the
\* values they held before, also when a column norm, a column range or a
\* distance denominator is zero.
C18_InputsUnchanged ==
    call.fn \in {"topsis", "promethee_ii", "wsm"} =>
        /\ arrays.decision_matrix = call.decision_matrix
        /\ arrays.weights = call.weights

\* a call of wsm on a matrix with a zero entry in a column of range zero
C18_Witness ==
    /\ call.fn = "wsm"
    /\ Rows(call.decision_matrix) = 2
    /\ \E k \in 1..Cols(call.decision_matrix) :
          call.decision_matrix[1][k] = 0 /\ call.decision_matrix[2][k] = 0
    /\ arrays.decision_matrix = call.decision_matrix

\* the natural number v as a binary64 number
F64OfNat(v) == Canon(BigOf(v), 0)

RECURSIVE SumOfSquaredNumerators(_)
SumOfSquaredNumerators(shares) ==
    IF shares = <<>> THEN 0
    ELSE Head(shares).n * Head(shares).n + SumOfSquaredNumerators(Tail(shares))

WholeShares(shares) == \A i \in 1..Len(shares) : shares[i].d = 1

IsEqualShares(shares) ==
    /\ Len(shares) >= 1
    /\ \A i \in 1..Len(shares) : shares[i] = [n |-> 100, d |-> Len(shares)]

RECURSIVE OddPart(_)
OddPart(k) == IF k % 2 = 0 THEN OddPart(k \div 2) ELSE k

\* 100 / k and its square are binary64 numbers
SquaresWithoutRounding(k) == OddPart(k) \in {1, 5, 25}

\* | x - n / k | <= (n / k) * 2^-bits, for a binary64 number x
WithinRelative(x, n, k, bits) ==
    LET L == BigShl(BigMul(x.m, BigOf(k)), IF x.e > 0 THEN x.e ELSE 0)
        R == BigShl(BigOf(n), IF x.e < 0 THEN 0 - x.e ELSE 0)
    IN  /\ BigCmp(BigAdd(BigShl(L, bits), R), BigShl(R, bits)) >= 0
        /\ BigCmp(BigShl(L, bits), BigAdd(BigShl(R, bits), R)) <= 0

\* C19 (as stated): compute_hhi returns the sum of the squared shares, so
\* for k equal shares of 100/k percent it returns exactly 10000/k.
C19_EqualSharesExact ==
    (call.fn = "compute_hhi" /\ IsEqualShares(call.shares)) =>
        ret = F64Div(10000, Len(call.shares))

\* C19 (amended): compute_hhi returns the binary64 sum of the binary64
\* squares of the shares: for whole-number shares it is the sum of the
\* squares; for k equal shares of 100/k percent it is 10000/k when 100/k and
\* its square need no rounding (k = 1, 2, 4, 5, 8, 10), and within a relative
\* error of 2^-50 of 10000/k for every k.
C19_EqualSharesWithinRounding ==
    call.fn = "compute_hhi" =>
        /\ WholeShares(call.shares) =>
               ret = F64OfNat(SumOfSquaredNumerators(call.shares))
        /\ IsEqualShares(call.shares) =>
               /\ WithinRelative(ret, 10000, Len(call.shares), MantissaBits - 3)
               /\ SquaresWithoutRounding(Len(call.shares)) =>
                      ret = F64Div(10000, Len(call.shares))

\* three equal shares: the result is not 10000 / 3 as Python computes it
C19_Witness ==
    /\ call.fn = "compute_hhi"
    /\ call.shares = EqualShares(3)
    /\ ret # F64Div(10000, 3)

FxReturned == call.fn = "simulate_fx" /\ ret.kind = "ok"

AllRuns(runs, P(_)) == \A i \in 1..Len(runs) : P(runs[i].v)

\* C11: simulate_fx with a horizon of 0 returns terminal values that are all
\* equal to the anchor rate (zero-horizon invariance).
C11_ZeroHorizonInvariance ==
    (FxReturned /\ call.horizon_days = <<0>>) =>
        AllRuns(ret.terminal_rates, LAMBDA v : v = ret.current_rate)

\* C12: every terminal value of simulate_fx is strictly positive, for any
\* currency, path count, horizon, anchor rate and volatility and any draws.
C12_TerminalRatesPositive ==
    FxReturned => AllRuns(ret.terminal_rates, LAMBDA v : RLt(RZero, v))

C15_TerminalRatesLength ==
    FxReturned =>
        /\ ret.n_paths = Length(ret.terminal_rates)
        /\ call.n_paths # None =>
               /\ (1 <= call.n_paths[1] /\ call.n_paths[1] <= MC_MAX_PATHS)
                      => Length(ret.terminal_rates) = call.n_paths[1]
               /\ call.n_paths[1] > MC_MAX_PATHS
                      => Length(ret.terminal_rates) = MC_MAX_PATHS

\* a call that asks for more than MC_MAX_PATHS paths
C15_Witness ==
    /\ FxReturned
    /\ call.n_paths = <<MC_MAX_PATHS + 1>>
    /\ Length(ret.terminal_rates) = MC_MAX_PATHS
    /\ Len(ret.terminal_rates) > 1

\* s^2 for s = annual_vol / sqrt(252), the volatility of one step
StepVolSq(annual_vol) == RDiv(RSq(annual_vol), RInt(TradingDays))

\* C20: each step of simulate_fx multiplies the rate by
\* exp(-0.5 * s^2 + s * Z) with s = annual_vol / sqrt(252): the drift is
\* -0.5 * s^2 and the coefficient of Z is s, the volatility scaled to the
\* step exactly once.
C20_StepExponent ==
    call.fn = "simulate_fx" =>
        /\ sims[1].drift = RMul(Rat(-1, 2), StepVolSq(EffVol(call.currency, call.annual_vol)))
        /\ sims[1].diffusion_sq = StepVolSq(EffVol(call.currency, call.annual_vol))

\* C13: in every result of simulate_fx, simulate_disruption and
\* simulate_cost_scenario (each returns only with at least one trial),
\* cvar_95 >= var_95.
C13_CvarAtLeastVar ==
    (/\ call.fn \in {"simulate_fx", "simulate_disruption", "simulate_cost_scenario"}
     /\ ret.kind = "ok")
        => RLeq(ret.var_95, ret.cvar_95)

\* a cost scenario of the default 10000 trials in which the tail beyond the
\* 95th percentile holds trials of several values
C13_Witness ==
    /\ call.fn = "simulate_cost_scenario"
    /\ ret.kind = "ok"
    /\ ret.n_simulations = MC_DEFAULT_PATHS
    /\ Len(AtLeast(ret.cost_distribution, ret.p95_cost)) >= 2
    /\ RLt(ret.var_95, ret.cvar_95)

\* a column of zeros (zero norm) or an alternative at distance 0 from both
\* ideal points (zero denominator)
ZeroNorm(dm) == \E k \in 1..Cols(dm) : \A i \in 1..Rows(dm) : dm[i][k] = 0
ZeroDenomOf(dist_best, dist_worst) ==
    \E i \in 1..Len(dist_best) : SurdSumIsZero(SurdSum(dist_best[i], dist_worst[i]))
ZeroDenom(weighted, benefit_criteria) ==
    ZeroDenomOf(Distances(weighted, IdealBest(weighted, benefit_criteria)),
                Distances(weighted, IdealWorst(weighted, benefit_criteria)))
ZeroRange(dm) == \E k \in 1..Cols(dm) : \A i \in 1..Rows(dm) : dm[i][k] = dm[1][k]

FallbackApplied ==
    \/ /\ call.fn = "topsis"
       /\ \/ ZeroNorm(call.decision_matrix)
          \/ ZeroDenom(Weighted(call.decision_matrix, call.weights),
                       BenefitDefault(call.benefit_criteria, Cols(call.decision_matrix)))
    \/ call.fn = "wsm" /\ ZeroRange(call.decision_matrix)
    \/ call.fn = "simulate_lead_time" /\ Len(LeadTimes(call.rows)) < MinHistory

\* The result of topsis and of wsm is the array of scores, which has no room
\* for a flag.  The result of simulate_lead_time tells the caller of the
\* fallback if it differs from the result for a history that is the
\* fallback list itself.
FlaggedInResult ==
    /\ call.fn = "simulate_lead_time"
    /\ ret # LeadTimeOfHistory(call.supplier_id, FallbackLeadTimes, ret.n_simulations,
                               call.samples)

\* C17: whenever a fallback for a degenerate quantity is applied (zero
\* column norm or zero distance denominator in topsis, zero column range in
\* wsm, the fixed sample list in simulate_lead_time), the call returns and
\* the substitution is logged or flagged in the result.
C17_FallbackLoggedOrFlagged ==
    (pc = "done" /\ FallbackApplied) =>
        /\ call.fn = "simulate_lead_time" => ret.kind = "ok"
        /\ log # <<>> \/ FlaggedInResult

\* C16: no state is shared between simulation calls: when two calls of
\* simulate_fx run interleaved in one process, each returns the values that
\* it would return if it ran alone from the same initial state of the
\* generator.
C16_InterleavedAsAlone ==
    call.fn = "interleaved" =>
        \A t \in Threads :
            sims[t].at = "returned" => sims[t].result = FxAlone(sims[t], np_random.stream)

\* max(1, d) for every duration d that the query returned (NULL rows have
\* no duration)
RECURSIVE FlooredDurations(_)
FlooredDurations(rows) ==
    IF rows = <<>> THEN <<>>
    ELSE IF Head(rows) = None THEN FlooredDurations(Tail(rows))
    ELSE <<IF Head(rows)[1] < 1 THEN 1 ELSE Head(rows)[1]>> \o FlooredDurations(Tail(rows))

\* C21 as stated: simulate_lead_time floors every historical duration to at
\* least 1 and keeps it: a zero or negative duration is in the sample set
\* that is counted and fitted, as 1.
C21_ZeroFlooredAndKept ==
    call.fn = "simulate_lead_time" /\ pc = "done" =>
        sims[1].filtered = FlooredDurations(call.rows)

\* C22: in simulate_lead_time, when fewer than 5 historical samples (the
\* positive durations that line 103 keeps) are available the fit uses the
\* fixed 10-element fallback list, and when 5 or more are available it uses
\* exactly those; the fitted set has at least 5 elements, all at least 1,
\* and n_historical is its length.
C22_FallbackBelowFive ==
    call.fn = "simulate_lead_time" /\ pc = "done" =>
        /\ Len(sims[1].filtered) < 5 => sims[1].lead_times = FallbackLeadTimes
        /\ Len(sims[1].filtered) >= 5 => sims[1].lead_times = sims[1].filtered
        /\ Len(sims[1].lead_times) >= 5
        /\ \A i \in 1..Len(sims[1].lead_times) : sims[1].lead_times[i] >= 1
        /\ ret.n_historical = Len(sims[1].lead_times)

\* four samples are available and the fallback list is fitted
C22_Witness ==
    /\ call.fn = "simulate_lead_time" /\ pc = "done"
    /\ Len(sims[1].filtered) = 4
    /\ sims[1].lead_times = FallbackLeadTimes
    /\ ret.n_historical = 10

\* the alternatives whose distances to the ideal-best and to the
\* ideal-worst are both zero get the denominator 1 and the score 0
BothZeroScoreZero(dist_best, dist_worst, scores) ==
    \A i \in 1..Len(scores) :
        SqrtIsZero(dist_best[i]) /\ SqrtIsZero(dist_worst[i]) =>
            QEqZero(scores[i]) /\ scores[i].den = SurdSumOne

BothZeroOfWeighted(weighted, benefit_criteria, scores) ==
    BothZeroScoreZero(Distances(weighted, IdealBest(weighted, benefit_criteria)),
                      Distances(weighted, IdealWorst(weighted, benefit_criteria)), scores)

AllRowsIdentical(dm) == \A i \in 1..Rows(dm) : dm[i] = dm[1]

\* C23: in topsis an alternative whose distances to the ideal-best and to
\* the ideal-worst are both zero gets the denominator 1 and the score 0,
\* never NaN or a division error; this is the case of every alternative of
\* a single-alternative matrix and of a matrix whose rows are all identical.
C23_BothDistancesZeroScoresZero ==
    call.fn = "topsis" =>
        /\ BothZeroOfWeighted(Weighted(call.decision_matrix, call.weights),
                              BenefitDefault(call.benefit_criteria,
                                             Cols(call.decision_matrix)), ret)
        /\ AllRowsIdentical(call.decision_matrix) =>
               \A i \in 1..Len(ret) : QEqZero(ret[i])

\* two identical rows with a positive weight: both scores are 0
C23_Witness ==
    /\ call.fn = "topsis"
    /\ Rows(call.decision_matrix) = 2
    /\ AllRowsIdentical(call.decision_matrix)
    /\ \E k \in 1..Len(call.weights) : RLt(RZero, call.weights[k])
    /\ \A i \in 1..Len(ret) : QEqZero(ret[i]) /\ ret[i].den = SurdSumOne

DisruptionReturned == call.fn = "simulate_disruption" /\ ret.kind = "ok"

\* C24: in simulate_disruption every trial's cost multiplier is at least 1
\* and every trial's lead-time addition is at least 0, so for a non-negative
\* baseline spend cost_impact_mean, cost_impact_p95, var_95,
\* lt_addition_mean and lt_addition_p95 are all non-negative.
C24_DisruptionFloors ==
    DisruptionReturned =>
        /\ AllRuns(sims[1].cost_impacts, LAMBDA v : RLeq(ROne, v))
        /\ AllRuns(sims[1].lt_additions, LAMBDA v : RLeq(RZero, v))
        /\ RLeq(RZero, ret.baseline_spend) =>
              /\ RLeq(RZero, ret.cost_impact_mean)
              /\ RLeq(RZero, ret.cost_impact_p95)
              /\ RLeq(RZero, ret.var_95)
              /\ RLeq(RZero, ret.lt_addition_mean)
              /\ RLeq(RZero, ret.lt_addition_p95)

\* a call in which a draw gives a multiplier below 1 (1.25 - 2 * 0.15) and
\* a draw gives a negative addition (21 - 3 * 10): both are floored, and
\* other trials keep a positive impact
C24_Witness ==
    /\ DisruptionReturned
    /\ call.scenario = "port_closure"
    /\ \E i \in 1..Len(call.zcost) : call.zcost[i].v = RInt(-2)
    /\ \E i \in 1..Len(call.zlt) : call.zlt[i].v = RInt(-3)
    /\ \E i \in 1..Len(sims[1].cost_impacts) : sims[1].cost_impacts[i].v = ROne
    /\ \E i \in 1..Len(sims[1].lt_additions) : sims[1].lt_additions[i].v = RZero
    /\ RLt(RZero, ret.cost_impact_mean)
    /\ RLt(RZero, ret.lt_addition_mean)

\* the computed statistics of a result of simulate_disruption
Statistics(r) ==
    [cost_impact_mean |-> r.cost_impact_mean, cost_impact_p95 |-> r.cost_impact_p95,
     lt_addition_mean |-> r.lt_addition_mean, lt_addition_p95 |-> r.lt_addition_p95,
     var_95 |-> r.var_95, cvar_95 |-> r.cvar_95]

\* the call of the state with another scenario, affected entity and duration
DisruptionAgain(scenario, a) ==
    simulate_disruption(scenario, a.entity, a.days, call.n_sims, call.baseline,
                        call.zcost, call.zlt)

\* C29: in simulate_disruption duration_days and affected_entity influence
\* no computed statistic: calls with the same scenario, baseline spend,
\* n_sims and draws but another duration or entity return the same
\* cost-impact, lead-time-addition, var_95 and cvar_95 values and differ
\* only in the echoed input fields; an unknown scenario name is computed
\* with the port_closure parameters.
C29_DurationAndEntityUnused ==
    DisruptionReturned =>
        /\ ret.affected_entity = call.affected_entity
        /\ ret.duration_days = call.duration_days
        /\ ret.scenario = call.scenario
        /\ \A a \in Affected :
              Statistics(DisruptionAgain(call.scenario, a)) = Statistics(ret)
        /\ call.scenario \notin DOMAIN impact_params =>
              \A a \in Affected :
                  Statistics(DisruptionAgain("port_closure", a)) = Statistics(ret)

\* a year-long disruption at Rotterdam under an unknown scenario name, with
\* a positive cost impact
C29_Witness ==
    /\ DisruptionReturned
    /\ call.scenario = "strike"
    /\ ret.affected_entity = "Rotterdam" /\ ret.duration_days = 365
    /\ RLt(RZero, ret.cost_impact_mean)
    /\ Statistics(ret) =
          Statistics(DisruptionAgain("port_closure", [entity |-> "Lagos", days |-> 30]))

\* C27: the simulation functions treat an explicit zero or empty argument
\* as not supplied and use the configured default: simulate_fx for
\* n_paths = 0, horizon_days = 0, current_rate = 0 and annual_vol = 0 (so a
\* volatility of 0 does not give a constant path), simulate_lead_time and
\* simulate_disruption for n_sims = 0, simulate_cost_scenario for an empty
\* fx_currencies list (the four default currencies).
C27_ZeroMeansDefault ==
    /\ FxReturned =>
          /\ call.n_paths = <<0>> => ret.n_paths = MC_DEFAULT_PATHS
          /\ call.horizon_days = <<0>> => ret.horizon_days = MC_DEFAULT_HORIZON_DAYS
          /\ call.current_rate = <<RZero>> =>
                ret.current_rate = Get(FX_ANCHOR_RATES, call.currency, ROne)
          /\ call.annual_vol = <<RZero>> =>
                /\ sims[1] = FxLocals(Get(FX_VOLATILITIES, call.currency, Rat(1, 10)))
                /\ sims[1].diffusion_sq # RZero
    /\ (call.fn = "simulate_lead_time" /\ pc = "done" /\ call.n_sims = <<0>>) =>
          /\ ret.n_simulations = MC_DEFAULT_PATHS
          /\ Length(ret.simulated) = MC_DEFAULT_PATHS
    /\ (DisruptionReturned /\ call.n_sims = <<0>>) =>
          /\ Length(sims[1].cost_impacts) = MC_DEFAULT_PATHS
          /\ Length(sims[1].lt_additions) = MC_DEFAULT_PATHS
    /\ (call.fn = "simulate_cost_scenario" /\ ret.kind = "ok"
            /\ call.fx_currencies = <<<<>>>>) =>
          /\ sims[1].fx_currencies = <<"NGN", "EUR", "GBP", "CNY">>
          /\ np_random.pos = sims[1].n_sims * 5

\* simulate_fx called with zero for all four arguments: the defaults are
\* used and a path ends away from the anchor rate
C27_Witness ==
    /\ FxReturned
    /\ call.n_paths = <<0>> /\ call.horizon_days = <<0>>
    /\ call.current_rate = <<RZero>> /\ call.annual_vol = <<RZero>>
    /\ ret.n_paths = MC_DEFAULT_PATHS /\ ret.horizon_days = MC_DEFAULT_HORIZON_DAYS
    /\ \E i \in 1..Len(ret.terminal_rates) : ret.terminal_rates[i].v # ret.current_rate

\* the net flows that run_mcda gets from promethee_ii (line 265)
RawFlows(custom_weights, df) ==
    promethee_ii(DecisionMatrix(df),
                 NormalizeWeights(WeightArray(WeightsDict(custom_weights))),
                 [type |-> "str", val |-> "linear"], 5, 20)

\* the suppliers with the lowest net flow have score 0 and tier Blocked;
\* when all flows are equal they all have rank 1 as well
LowestBlocked(raw, rows) ==
    /\ \A i \in 1..Len(rows) :
          raw[i] = RMinSeq(raw) =>
              /\ rows[i].composite_score = 0
              /\ rows[i].tier_recommendation = "Blocked"
    /\ RMinSeq(raw) = RMaxSeq(raw) => \A i \in 1..Len(rows) : rows[i].rank = 1

\* C28: in run_mcda with method PROMETHEE the net flows are rescaled by
\* (flow - min) / (max - min + 1e-9) * 100, so the supplier with the lowest
\* net flow always gets composite score 0 and tier Blocked, and when all
\* net flows are equal every supplier gets score 0, tier Blocked and rank 1,
\* whatever the raw criterion scores are.
C28_LowestFlowBlocked ==
    (call.fn = "run_mcda" /\ call.method = "PROMETHEE" /\ ret.kind = "df") =>
        LowestBlocked(RawFlows(call.custom_weights, call.df), ret.rows)

\* two suppliers with different raw scores and equal net flows: both have
\* score 0, tier Blocked and rank 1
C28_Witness ==
    /\ call.fn = "run_mcda" /\ call.method = "PROMETHEE" /\ ret.kind = "df"
    /\ Len(ret.rows) = 2
    /\ DecisionMatrix(call.df)[1] # DecisionMatrix(call.df)[2]
    /\ \A i \in 1..2 :
          /\ ret.rows[i].composite_score = 0
          /\ ret.rows[i].tier_recommendation = "Blocked"
          /\ ret.rows[i].rank = 1

\* the linear preference of a difference d: 0 up to q, 1 from p on, and
\* (d - q) / (p - q) between
LinearPreference(d, q, p) ==
    IF d <= q THEN RZero ELSE IF d >= p THEN ROne ELSE Rat(d - q, p - q)

\* pi(a, b): the weighted sum of the preferences of a over b
WeightedPreference(dm, weights, q, p, a, b) ==
    RSum(Tab(LAMBDA k : RMul(weights[k], LinearPreference(dm[a][k] - dm[b][k], q, p)),
             Cols(dm)))

\* net(i): average over j # i of pi(i, j) minus average over j # i of pi(j, i)
SinglePassNet(dm, weights, q, p, i) ==
    RSub(RDiv(RSum(Tab(LAMBDA j : IF j = i THEN RZero
                                   ELSE WeightedPreference(dm, weights, q, p, i, j),
                       Rows(dm))), RInt(Rows(dm) - 1)),
         RDiv(RSum(Tab(LAMBDA j : IF j = i THEN RZero
                                   ELSE WeightedPreference(dm, weights, q, p, j, i),
                       Rows(dm))), RInt(Rows(dm) - 1)))

\* C25: the net flow that promethee_ii returns is the single-pass one,
\* net(i) = average over j # i of pi(i, j) minus average over j # i of
\* pi(j, i) with the linear preference (every criterion taken as a
\* benefit); the first pair of loops has no effect on the returned value
\* (a single alternative has nothing to be compared with: net flow 0).
C25_SinglePassNetFlow ==
    call.fn = "promethee_ii" =>
        /\ Len(ret) = Rows(call.decision_matrix)
        /\ \A i \in 1..Len(ret) :
              ret[i] = IF Rows(call.decision_matrix) = 1 THEN RZero
                       ELSE SinglePassNet(call.decision_matrix, call.weights,
                                          call.q, call.p, i)

\* three alternatives, a preference strictly between 0 and 1, and a first
\* pair of loops that left flows other than 0 behind
C25_Witness ==
    /\ call.fn = "promethee_ii"
    /\ Len(ret) = 3
    /\ call.q < call.p
    /\ \E i \in 1..3 : ret[i] # RZero
    /\ \E i \in 1..3 :
          FirstPass(call.decision_matrix, call.weights, call.q, call.p).phi_plus[i] # RZero
    /\ \E i, j \in 1..3 : \E k \in 1..Cols(call.decision_matrix) :
          /\ call.q < call.decision_matrix[i][k] - call.decision_matrix[j][k]
          /\ call.decision_matrix[i][k] - call.decision_matrix[j][k] < call.p
          /\ call.weights[k] # RZero

\* the endpoint returns rates: it answers with a JSON object whose "rates"
\* object is not empty and holds numbers
ReturnsRates(answer) ==
    /\ answer.kind = "json"
    /\ "rates" \in DOMAIN answer.data
    /\ DOMAIN answer.data.rates # {}
    /\ \A c \in DOMAIN FX_STATIC_RATES \cap DOMAIN answer.data.rates :
          answer.data.rates[c].kind = "num"

\* the map holds every currency of the static table: the rate of the
\* response where it carries one, the static rate otherwise
BackFilled(map, rates) ==
    /\ DOMAIN map = DOMAIN FX_STATIC_RATES
    /\ \A c \in DOMAIN map :
          map[c] = IF c \in DOMAIN rates THEN rates[c].v ELSE FX_STATIC_RATES[c]

Configured == ~NotSet(auth.DASHBOARD_USER) /\ ~NotSet(auth.DASHBOARD_PASS_HASH)

\* the form of the run was submitted with the configured user name and a
\* password that has the configured hash
MatchingSubmission(form) ==
    /\ form.submitted
    /\ form.username = auth.DASHBOARD_USER[1]
    /\ Sha256(form.password) = auth.DASHBOARD_PASS_HASH[1]

\* what a run of login_gate returned, given the state it started from
GateOutcome ==
    call.fn = "login_gate" =>
        IF Configured
        THEN /\ (ret.kind = "return" /\ ret.value) <=> IsAuthenticated(call.before)
             /\ ~IsAuthenticated(call.before) =>
                   IF MatchingSubmission(call.form)
                   THEN ret.kind = "rerun" /\ IsAuthenticated(session_state[call.session])
                   ELSE /\ ret.kind = "return" /\ ~ret.value
                        /\ ~IsAuthenticated(session_state[call.session])
        ELSE /\ ret.kind = "return" /\ ret.value
             /\ ret.shown = <<>>
             /\ ~IsAuthenticated(session_state[call.session])

\* a session's flag becomes true only in a run of that session with a
\* matching submission, under configured credentials
FlagSetOnlyByLogin ==
    pc = "serving" =>
        \A s \in Sessions :
            (~IsAuthenticated(session_state[s]) /\ IsAuthenticated(session_state'[s])) =>
                /\ Configured
                /\ call'.fn = "login_gate" /\ call'.session = s
                /\ MatchingSubmission(call'.form)

====
